---- MODULE Spec2Model ----
(***************************************************************************)
(* Bridging state machine of the single-radio WiFi repeater                *)
(* (src/main/wifi_repeater_main.c, lines 1-1113): the radio/IP event       *)
(* handlers, the MAC-change worker (mac_change_task), the worker mutex,    *)
(* the event group and the part of the radio driver they talk to.          *)
(*                                                                         *)
(* Granularity.  The event loop task runs one handler at a time; a handler *)
(* is split where the worker can observe it half-done (STA_CONNECTED: the  *)
(* flag/bit writes, then the s_mac_cloned gate; STA_DISCONNECTED: the      *)
(* flag/bit writes, then forwarding_stop and the suppression test, then    *)
(* the delayed reconnect).  The worker is split at every blocking call     *)
(* (mutex take, event-group waits, delays) and between its writes to the   *)
(* flags the handlers read.  Bounded waits are untimed: a wait may time    *)
(* out whenever the bit it waits for is not set.                           *)
(***************************************************************************)
EXTENDS Integers, Sequences, FiniteSets, TLC

(* ---------------------------------------------------------------------- *)
(* Bounds of the model                                                     *)
(* ---------------------------------------------------------------------- *)
\* number of mac_change_task instances alive at the same time
MaxTasks == 2
\* number of radio/IP events queued for the event loop task
MaxEvq == 1

(* ---------------------------------------------------------------------- *)
(* Values                                                                  *)
(* ---------------------------------------------------------------------- *)
\* s_original_sta_mac: the factory STA address
s_original_sta_mac == "O"
\* s_client_mac before any client joined (zero-initialised static)
ZeroMac == "00"
\* hardware addresses of the downstream clients
Clients == {"A", "B"}
\* upstream access points the STA can associate to (BSSID)
Aps == {"ap1", "ap2"}
\* channel of each upstream access point
Channel == [a \in Aps |-> IF a = "ap1" THEN 1 ELSE 6]

\* s_mac_task_mutex when no task holds it
NoHolder == 0

STATE_IDLE == "IDLE"
STATE_MAC_CHANGING == "MAC_CHANGING"
STATE_BRIDGING == "BRIDGING"
STATE_MAC_RESTORING == "MAC_RESTORING"

STA_CONNECTED_BIT == "STA_CONNECTED_BIT"
STA_DISCONNECTED_BIT == "STA_DISCONNECTED_BIT"

Event(t, a) == [type |-> t, arg |-> a]
NoPin == [bssid_set |-> FALSE, bssid |-> "-", channel |-> 0]

\* hardware addresses seen in frames: the clients, further stations behind
\* the AP, the factory STA address, the AP address, one multicast group
\* address and the broadcast address
Stations == {"C", "D", "E", "F", "G", "H", "I", "J"}
s_ap_mac == "P"
McastMac == "M"
BcastMac == "FF"
Macs == Clients \cup Stations \cup
        {s_original_sta_mac, s_ap_mac, ZeroMac, McastMac, BcastMac}
\* mac[0], the first octet of each hardware address
FirstOctet == [m \in Macs |->
                 CASE m = McastMac -> 1
                   [] m = BcastMac -> 255
                   [] m = ZeroMac -> 0
                   [] m = s_original_sta_mac -> 36
                   [] m = s_ap_mac -> 38
                   [] m = "A" -> 170
                   [] m = "B" -> 172
                   [] OTHER -> 2]

\* IPv4 addresses are modelled with two octets instead of four: an address
\* is a number below Octet * Octet, the network byte order of a host-order
\* number is its octet swap, and arithmetic wraps as uint32_t arithmetic does
Octet == 256
AddrSpace == Octet * Octet
ntohl(x) == (x % Octet) * Octet + (x \div Octet)
htonl(x) == (x % Octet) * Octet + (x \div Octet)
Wrap(x) == x % AddrSpace

RECURSIVE BitAnd(_, _)
BitAnd(a, b) ==
    IF a = 0 \/ b = 0 THEN 0
    ELSE (a % 2) * (b % 2) + 2 * BitAnd(a \div 2, b \div 2)
BitOr(a, b) == a + b - BitAnd(a, b)
BitNot(a) == (AddrSpace - 1) - a

\* the three configurations esp_netif_set_ip_info(s_ap_netif) is called
\* with: the management address 192.168.4.1/24, the STA's own address
\* (ap_mirror_sta_ip), and an address computed by the DHCP sniffer, whose
\* fields are in network byte order
ApMgmt == [kind |-> "192.168.4.1", ip |-> 0, netmask |-> 0, gw |-> 0]
ApMirror == [kind |-> "sta", ip |-> 0, netmask |-> 0, gw |-> 0]
ApSniffed(i, m, g) == [kind |-> "sniffed", ip |-> i, netmask |-> m, gw |-> g]

\* capacity of the MAC-NAT table
MACNAT_MAX == 8
\* a zeroed macnat_entry_t
NoEntry == [used |-> FALSE, ip |-> 0, real_mac |-> ZeroMac, last_seen |-> 0]
\* the zeroed table
NoTable == [i \in 1..MACNAT_MAX |-> NoEntry]
\* no call recorded yet
NoCall == [fn |-> "none"]

VARIABLES
    s_state,                    \* repeater_state_t s_state
    s_sta_connected,            \* s_sta_connected
    s_forwarding_active,        \* s_forwarding_active
    s_mac_cloned,               \* s_mac_cloned
    s_suppress_auto_reconnect,  \* s_suppress_auto_reconnect
    s_client_mac,               \* s_client_mac
    s_client_count,             \* s_client_count
    s_bssid_locked,             \* s_bssid_locked
    s_upstream_bssid,           \* s_upstream_bssid
    s_upstream_channel,         \* s_upstream_channel
    s_ap_ip_from_sniff,         \* s_ap_ip_from_sniff
    s_wifi_event_group,         \* set of event bits currently set
    s_mac_task_mutex,           \* NoHolder or the index of the task holding it
    tasks,                      \* the live mac_change_task instances, oldest
                                \* first: position (pc) and parameters
    aps_in_range,               \* the upstream access points in radio range
    evt_pc,                     \* position of the event loop task in a handler
    evq,                        \* events posted to the event loop, oldest first
    sta_mac,                    \* driver: STA hardware address
    sta_cfg,                    \* driver: STA config bssid_set/bssid/channel
    link,                       \* driver: STA association
    rxcb,                       \* driver: ingress callbacks registered
    sta_list,                   \* driver: authoritative AP client list
    sta_dhcpc,                  \* netif: STA DHCP client running
    ip_has,                     \* netif: STA holds a DHCP lease
    ap_ip,                      \* netif: AP interface address configuration
    ap_dhcps,                   \* netif: AP DHCP server running
    s_macnat,                   \* s_macnat[MACNAT_MAX]
    now,                        \* esp_timer_get_time()
    last_call                   \* the last call of a table operation, of the
                                \* sniffer or of an ingress callback: its
                                \* arguments and what it did

vars == << s_state, s_sta_connected, s_forwarding_active, s_mac_cloned,
           s_suppress_auto_reconnect, s_client_mac, s_client_count,
           s_bssid_locked, s_upstream_bssid, s_upstream_channel,
           s_ap_ip_from_sniff, s_wifi_event_group, s_mac_task_mutex, tasks,
           aps_in_range, evt_pc, evq, sta_mac, sta_cfg, link, rxcb, sta_list,
           sta_dhcpc, ip_has, ap_ip, ap_dhcps, s_macnat, now, last_call >>

\* groups used in UNCHANGED
flagVars == << s_state, s_sta_connected, s_forwarding_active, s_mac_cloned,
               s_suppress_auto_reconnect, rxcb >>
clientVars == << s_client_mac, s_client_count >>
anchorVars == << s_bssid_locked, s_upstream_bssid, s_upstream_channel >>
taskVars == << s_mac_task_mutex, tasks >>
apVars == << s_ap_ip_from_sniff, ap_ip, ap_dhcps >>
drvVars == << sta_mac, sta_cfg, link, sta_list, sta_dhcpc, ip_has,
             aps_in_range >>
natVars == << s_macnat, now, last_call >>

(* ---------------------------------------------------------------------- *)
(* State after app_main: esp_wifi_start() has posted STA_START             *)
(* ---------------------------------------------------------------------- *)
InitWith(aps) ==
    /\ aps_in_range = aps
    /\ s_state = STATE_IDLE
    /\ s_sta_connected = FALSE
    /\ s_forwarding_active = FALSE
    /\ s_mac_cloned = FALSE
    /\ s_suppress_auto_reconnect = FALSE
    /\ s_client_mac = ZeroMac
    /\ s_client_count = 0
    /\ s_bssid_locked = FALSE
    /\ s_upstream_bssid = "-"
    /\ s_upstream_channel = 0
    /\ s_ap_ip_from_sniff = FALSE
    /\ s_wifi_event_group = {}
    /\ s_mac_task_mutex = NoHolder
    /\ tasks = << >>
    /\ evt_pc = "idle"
    /\ evq = << Event("STA_START", "-") >>
    /\ sta_mac = s_original_sta_mac
    /\ sta_cfg = NoPin
    /\ link = "down"
    /\ rxcb = FALSE
    /\ sta_list = << >>
    /\ sta_dhcpc = TRUE
    /\ ip_has = FALSE
    /\ ap_ip = ApMgmt
    /\ ap_dhcps = TRUE

\* the zero-initialised table; no frame has been received yet
InitTable ==
    /\ s_macnat = NoTable
    /\ now = 0
    /\ last_call = NoCall

\* one upstream access point in range
Init == InitWith({"ap1"}) /\ InitTable

(* ---------------------------------------------------------------------- *)
(* Radio driver calls made by the core                                     *)
(* ---------------------------------------------------------------------- *)
\* a connect call that starts no association attempt
esp_wifi_connect_ignored(l) == l

\* esp_wifi_connect(): starts an association attempt unless one exists
esp_wifi_connect(l) == IF l = "down" THEN "connecting" ELSE l

\* esp_wifi_disconnect(): whether STA_DISCONNECTED is posted.  It is when
\* the station was associated; an aborted attempt may or may not post it.
esp_wifi_disconnect_posts(l) ==
    IF l = "up" THEN {TRUE}
    ELSE IF l = "connecting" THEN {TRUE, FALSE}
    ELSE {FALSE}

\* esp_wifi_set_mac(WIFI_IF_STA, m): the address after the call; a failed
\* call leaves the previous address in place
esp_wifi_set_mac(ok, m) == IF ok THEN m ELSE sta_mac

\* room in the event loop queue for one more event
EvqRoom == Len(evq) < MaxEvq

(* ---------------------------------------------------------------------- *)
(* forwarding_start / forwarding_stop                                      *)
(* ---------------------------------------------------------------------- *)
forwarding_start ==
    IF s_forwarding_active
    THEN UNCHANGED << s_forwarding_active, rxcb >>
    ELSE rxcb' = TRUE /\ s_forwarding_active' = TRUE

\* a forwarding_stop that leaves the callbacks registered
forwarding_stop_keeps_callbacks ==
    UNCHANGED << s_forwarding_active, rxcb >>

forwarding_stop ==
    IF ~s_forwarding_active
    THEN UNCHANGED << s_forwarding_active, rxcb >>
    ELSE rxcb' = FALSE /\ s_forwarding_active' = FALSE

(* ---------------------------------------------------------------------- *)
(* AP interface address helpers                                            *)
(* ---------------------------------------------------------------------- *)
\* ap_mirror_sta_ip: link-local (and zero) STA addresses are ignored
ap_mirror_sta_ip(kind) ==
    IF kind = "linklocal"
    THEN UNCHANGED << ap_ip, ap_dhcps >>
    ELSE ap_dhcps' = FALSE /\ ap_ip' = ApMirror

ap_restore_management_ip ==
    ap_ip' = ApMgmt /\ ap_dhcps' = TRUE

(* ---------------------------------------------------------------------- *)
(* MAC-NAT table: macnat_learn, macnat_lookup_by_ip, macnat_clear          *)
(* The operators take the table T and give the table after the call (or   *)
(* the looked-up address); slots are numbered from 1.                      *)
(* ---------------------------------------------------------------------- *)
\* mac[0] & 0x01
is_multicast(mac) == FirstOctet[mac] % 2 = 1

\* no slot chosen yet (free_idx = -1)
NoIdx == 0

\* what macnat_learn writes into the slot it inserts into
new_entry(ip_n, mac, t) ==
    [used |-> TRUE, ip |-> ip_n, real_mac |-> mac, last_seen |-> t]

\* the slot macnat_learn inserts into when no entry matched
insert_idx(free_idx, oldest_idx) ==
    IF free_idx # NoIdx THEN free_idx ELSE oldest_idx

\* an eviction that keeps the slot seen last
newer(T, i, oldest_idx) == T[i].last_seen > T[oldest_idx].last_seen

\* whether slot i replaces the oldest slot found so far
older(T, i, oldest_idx) == T[i].last_seen < T[oldest_idx].last_seen

\* a hot path that refreshes the timestamp
hot_path_touch(T, i, t) == [T EXCEPT ![i].last_seen = t]

\* same IP and same MAC in slot i: return, nothing is written
hot_path(T, i, t) == T

\* the for loop of macnat_learn from slot i on, and the insertion after it;
\* t is the value esp_timer_get_time() returns
RECURSIVE learn_scan(_, _, _, _, _, _, _)
learn_scan(T, ip_n, mac, t, i, free_idx, oldest_idx) ==
    IF i > MACNAT_MAX
    THEN [T EXCEPT ![insert_idx(free_idx, oldest_idx)] = new_entry(ip_n, mac, t)]
    ELSE IF T[i].used
         THEN IF T[i].ip = ip_n
              THEN IF T[i].real_mac = mac
                   THEN hot_path(T, i, t)
                   ELSE [T EXCEPT ![i].real_mac = mac, ![i].last_seen = t]
              ELSE IF T[i].real_mac = mac
                   THEN [T EXCEPT ![i].ip = ip_n, ![i].last_seen = t]
                   ELSE learn_scan(T, ip_n, mac, t, i + 1, free_idx,
                                   IF older(T, i, oldest_idx) THEN i
                                                              ELSE oldest_idx)
         ELSE learn_scan(T, ip_n, mac, t, i + 1,
                         IF free_idx = NoIdx THEN i ELSE free_idx, oldest_idx)

macnat_learn(T, ip_n, mac, t) ==
    IF is_multicast(mac) \/ ip_n = 0
    THEN T
    ELSE learn_scan(T, ip_n, mac, t, 1, NoIdx, 1)

\* the slots macnat_lookup_by_ip can return
lookup_hits(T, ip_n) == {i \in 1..MACNAT_MAX : T[i].used /\ T[i].ip = ip_n}

\* a scan that returns the last matching slot
last_hit(hits) == CHOOSE i \in hits : \A j \in hits : i >= j

\* of several matching slots the scan returns the first
first_hit(hits) == CHOOSE i \in hits : \A j \in hits : i <= j

\* macnat_lookup_by_ip: the real_mac of the first matching slot, or "NULL"
macnat_lookup_by_ip(T, ip_n) ==
    IF lookup_hits(T, ip_n) = {}
    THEN "NULL"
    ELSE T[first_hit(lookup_hits(T, ip_n))].real_mac

\* macnat_clear: memset(s_macnat, 0, sizeof(s_macnat))
macnat_clear == NoTable

(* ---------------------------------------------------------------------- *)
(* Frames.  A frame is the record of the fields the callbacks, the         *)
(* rewriters and the sniffer read: null (buffer == NULL), len, dst, src,   *)
(* ethertype, proto (IP protocol), ihl (IP header length), ports (UDP      *)
(* source/destination), src_ip (IPv4 source or ARP sender address),        *)
(* dst_ip (IPv4 destination or ARP target address) and, of the DHCP        *)
(* message, op, cookie (magic cookie present), msg_type        *)
(* (option 53), yiaddr, subnet_mask (option 1, 0 when absent), gateway     *)
(* (option 3, 0 when absent) and chaddr.  Addresses are in network byte    *)
(* order.                                                                  *)
(* ---------------------------------------------------------------------- *)
\* a server-to-client DHCP ACK of 300 octets for chaddr, sent to dst
\* a UDP checksum that was computed (not 0x0000)
SomeChecksum == 4660
\* the BROADCAST bit of the DHCP flags field: dhcp[10] |= 0x80
BROADCAST_FLAG == 32768

DhcpAck(dst, yiaddr, subnet_mask, gateway, chaddr) ==
    [null |-> FALSE, len |-> 300, dst |-> dst, src |-> "G",
     ethertype |-> "ipv4", proto |-> "udp", ihl |-> 20, ports |-> "67_68",
     src_ip |-> gateway, dst_ip |-> yiaddr, op |-> 2, cookie |-> TRUE, msg_type |-> 5,
     yiaddr |-> yiaddr, subnet_mask |-> subnet_mask, gateway |-> gateway,
     chaddr |-> chaddr, flags |-> 0, udp_csum |-> SomeChecksum,
     arp_sha |-> ZeroMac, arp_tha |-> ZeroMac]

\* a frame without a DHCP message
Plain(null, len, dst, src, ethertype, src_ip, dst_ip) ==
    [null |-> null, len |-> len, dst |-> dst, src |-> src,
     ethertype |-> ethertype, proto |-> "other", ihl |-> 20,
     ports |-> "other", src_ip |-> src_ip, dst_ip |-> dst_ip, op |-> 0, cookie |-> FALSE,
     msg_type |-> 0, yiaddr |-> 0, subnet_mask |-> 0, gateway |-> 0,
     chaddr |-> ZeroMac, flags |-> 0, udp_csum |-> 0,
     arp_sha |-> src, arp_tha |-> ZeroMac]

\* a DHCP client-to-server message (UDP port 68 to 67) of client src, with
\* the given frame length, IP header length, flags field and UDP checksum
DhcpRequest(len, ihl, src, flags, udp_csum) ==
    [null |-> FALSE, len |-> len, dst |-> BcastMac, src |-> src,
     ethertype |-> "ipv4", proto |-> "udp", ihl |-> ihl, ports |-> "68_67",
     src_ip |-> 0, dst_ip |-> AddrSpace - 1, op |-> 1, cookie |-> TRUE,
     msg_type |-> 3, yiaddr |-> 0, subnet_mask |-> 0, gateway |-> 0,
     chaddr |-> src, flags |-> flags, udp_csum |-> udp_csum,
     arp_sha |-> ZeroMac, arp_tha |-> ZeroMac]

(* ---------------------------------------------------------------------- *)
(* sniff_dhcp_ack_and_set_ap_ip                                            *)
(* ---------------------------------------------------------------------- *)
\* number of candidates the selection loop tries
SNIFF_TRIES == 10

\* dhcp_len = len - 14 - ip_ihl - 8
dhcp_len(f) == f.len - 14 - f.ihl - 8

\* the frame passes every early return of the sniffer: BOOTREPLY with the
\* magic cookie, option 53 = ACK, yiaddr and subnet mask not zero
sniff_accepts(f) ==
    /\ dhcp_len(f) >= 240
    /\ f.op = 2
    /\ f.cookie
    /\ f.msg_type = 5
    /\ f.yiaddr # 0
    /\ f.subnet_mask # 0

\* a candidate test that forgets the gateway
candidate_ok_client_only(c, network, bcast, h_client, h_gw) ==
    c > network /\ c < bcast /\ c # h_client

\* the candidate is a host address of the subnet other than client and gateway
candidate_ok(c, network, bcast, h_client, h_gw) ==
    c > network /\ c < bcast /\ c # h_client /\ c # h_gw

\* for (tries = 0; tries < 10; tries++): break on a good candidate, else
\* candidate--
RECURSIVE sniff_tries(_, _, _, _, _, _)
sniff_tries(c, tries, network, bcast, h_client, h_gw) ==
    IF tries >= SNIFF_TRIES THEN c
    ELSE IF candidate_ok(c, network, bcast, h_client, h_gw) THEN c
    ELSE sniff_tries(Wrap(c - 1 + AddrSpace), tries + 1, network, bcast,
                     h_client, h_gw)

\* "Safety": outside the subnet, use client - 1, or client + 1
sniff_fallback(c, network, bcast, h_client) ==
    IF c <= network \/ c >= bcast
    THEN IF Wrap(h_client - 1 + AddrSpace) <= network
         THEN Wrap(h_client + 1)
         ELSE Wrap(h_client - 1 + AddrSpace)
    ELSE c

\* the AP address chosen for an ACK, in host byte order
sniff_candidate(client_ip_n, subnet_mask, gateway) ==
    LET h_client == ntohl(client_ip_n)
        h_mask == ntohl(subnet_mask)
        h_gw == ntohl(gateway)
        network == BitAnd(h_client, h_mask)
        bcast == BitOr(network, BitNot(h_mask))
    IN  sniff_fallback(
            sniff_tries(Wrap(bcast - 1 + AddrSpace), 0, network, bcast,
                        h_client, h_gw),
            network, bcast, h_client)

\* the table after the sniffer saw f at time t
sniff_learn(T, f, t) ==
    IF sniff_accepts(f) THEN macnat_learn(T, f.yiaddr, f.chaddr, t) ELSE T

\* AP IP already set from a previous DHCP ACK: skip
latched == s_ap_ip_from_sniff

\* sniff_dhcp_ack_and_set_ap_ip(data, len) at time t, on a frame the caller
\* checked: what it does to the AP interface and to the latch
sniff_dhcp_ack_and_set_ap_ip(f) ==
    IF ~sniff_accepts(f)
    THEN UNCHANGED << s_ap_ip_from_sniff, ap_ip, ap_dhcps >>
    ELSE /\ IF latched
            THEN UNCHANGED << s_ap_ip_from_sniff, ap_ip, ap_dhcps >>
            ELSE /\ ap_dhcps' = FALSE
                 /\ ap_ip' = ApSniffed(
                        htonl(sniff_candidate(f.yiaddr, f.subnet_mask,
                                              f.gateway)),
                        f.subnet_mask, f.gateway)
                 /\ s_ap_ip_from_sniff' = TRUE

(* ---------------------------------------------------------------------- *)
(* on_sta_rx / on_ap_rx.  The ownership of the rx buffer is the sequence   *)
(* of driver calls a callback makes: "tx_ap" and "tx_sta" are              *)
(* esp_wifi_internal_tx (which copies), "receive_sta" and "receive_ap"     *)
(* are esp_netif_receive, "free" is esp_wifi_internal_free_rx_buffer.      *)
(* ---------------------------------------------------------------------- *)
\* a length check that also turns away a frame that is only its header
runt_with_header(f) == f.null \/ f.len <= 14

\* if (!buffer || len < 14)
runt(f) == f.null \/ f.len < 14

\* the inline check of on_sta_rx: IPv4, UDP, port 67 to 68, len >= 286
is_dhcp_reply(f) ==
    /\ f.len >= 286
    /\ f.ethertype = "ipv4"
    /\ f.proto = "udp"
    /\ 14 + f.ihl + 8 <= f.len
    /\ f.ports = "67_68"

\* the frame carries an address the rewriters read: IPv4 or ARP, long enough
has_ip(f) ==
    \/ f.ethertype = "ipv4" /\ f.len >= 34
    \/ f.ethertype = "arp" /\ f.len >= 42

\* the table after on_sta_rx: only the sniffer writes to it
sta_rx_table(T, f, t) ==
    IF ~runt(f) /\ is_dhcp_reply(f) THEN sniff_learn(T, f, t) ELSE T

\* macnat_rewrite_downstream: the destination address after the rewrite
macnat_rewrite_downstream(T, f) ==
    LET real_mac == IF has_ip(f) THEN macnat_lookup_by_ip(T, f.dst_ip)
                    ELSE "NULL"
    IN  IF real_mac # "NULL" /\ real_mac # s_client_mac THEN real_mac
        ELSE f.dst

\* a downstream path that leaves every frame as it came
left_downstream(T, f) == f

\* macnat_rewrite_downstream: the frame after the rewrite; an ARP frame has
\* its target hardware address rewritten as well
rewritten_downstream(T, f) ==
    LET real_mac == IF has_ip(f) THEN macnat_lookup_by_ip(T, f.dst_ip)
                    ELSE "NULL"
        hit == real_mac # "NULL" /\ real_mac # s_client_mac
    IN  [f EXCEPT !.dst = IF hit THEN real_mac ELSE @,
                  !.arp_tha = IF hit /\ f.ethertype = "arp" THEN real_mac
                              ELSE @]

\* a delivery test that looks at the destination as it was received
sta_rx_dst_as_received(T, f, t) == f.dst

\* dst as on_sta_rx reads it after the rewrite
sta_rx_dst(T, f, t) ==
    IF s_client_count > 1 /\ ~is_multicast(f.dst)
    THEN macnat_rewrite_downstream(sta_rx_table(T, f, t), f)
    ELSE f.dst

\* a callback that frees the buffer it has handed to the stack
and_free(calls) == calls \o << "free" >>

\* return ESP_OK after esp_netif_receive
and_return(calls) == calls

\* an on_sta_rx that consults the table whatever the client count
sta_rx_frame_always(T, f, t) ==
    IF ~is_multicast(f.dst)
    THEN rewritten_downstream(sta_rx_table(T, f, t), f)
    ELSE f

\* the buffer as on_sta_rx hands it to esp_wifi_internal_tx(WIFI_IF_AP) and
\* to the stack
sta_rx_frame(T, f, t) ==
    IF s_client_count > 1 /\ ~is_multicast(f.dst)
    THEN rewritten_downstream(sta_rx_table(T, f, t), f)
    ELSE f

\* the driver calls of on_sta_rx(buffer, len, eb)
on_sta_rx_calls(T, f, t) ==
    IF runt(f) THEN << "free" >>
    ELSE IF is_multicast(sta_rx_dst(T, f, t))
    THEN and_return(<< "tx_ap", "receive_sta" >>)
    ELSE IF sta_rx_dst(T, f, t) \in {s_original_sta_mac, s_client_mac}
    THEN and_return(<< "tx_ap", "receive_sta" >>)
    ELSE << "tx_ap", "free" >>

\* on_sta_rx(buffer, len, eb) at time t: what it does to the state
on_sta_rx(f, t) ==
    /\ s_macnat' = sta_rx_table(s_macnat, f, t)
    /\ IF ~runt(f) /\ is_dhcp_reply(f)
       THEN sniff_dhcp_ack_and_set_ap_ip(f)
       ELSE UNCHANGED << s_ap_ip_from_sniff, ap_ip, ap_dhcps >>

\* on_ap_rx rewrites the frame: more than one client, unicast source that is
\* not the primary client
rewrites_upstream(f) ==
    s_client_count > 1 /\ ~is_multicast(f.src) /\ f.src # s_client_mac

\* macnat_rewrite_upstream: the table after it learned the source
macnat_rewrite_upstream(T, f, t) ==
    IF has_ip(f) THEN macnat_learn(T, f.src_ip, f.src, t) ELSE T

\* a DHCP test that asks for the whole fixed part of the message, up to the
\* magic cookie
dhcp_fix_full_message(f) ==
    /\ f.proto = "udp"
    /\ 14 + f.ihl + 8 <= f.len
    /\ f.ports = "68_67"
    /\ 14 + f.ihl + 8 + 240 <= f.len

\* the DHCP fix applies: UDP, port 68 to 67, and the frame reaches 44 bytes
\* into the DHCP message
dhcp_fix(f) ==
    /\ f.proto = "udp"
    /\ 14 + f.ihl + 8 <= f.len
    /\ f.ports = "68_67"
    /\ 14 + f.ihl + 8 + 44 <= f.len

\* macnat_rewrite_upstream: the frame after the rewrite
rewritten_upstream(f) ==
    LET g == IF f.ethertype = "ipv4" /\ f.len >= 34
             THEN IF dhcp_fix(f)
                  THEN [f EXCEPT !.flags = BitOr(@, BROADCAST_FLAG),
                                 !.udp_csum = 0]
                  ELSE f
             ELSE IF f.ethertype = "arp" /\ f.len >= 42
             THEN [f EXCEPT !.arp_sha = s_client_mac]
             ELSE f
    IN  [g EXCEPT !.src = s_client_mac]

\* the buffer as on_ap_rx hands it to esp_wifi_internal_tx(WIFI_IF_STA) and
\* to the stack
ap_rx_frame(f) ==
    IF rewrites_upstream(f) THEN rewritten_upstream(f) ELSE f

\* if (s_sta_connected) esp_wifi_internal_tx(WIFI_IF_STA, ...)
tx_sta == IF s_sta_connected THEN << "tx_sta" >> ELSE << >>

\* the driver calls of on_ap_rx(buffer, len, eb)
on_ap_rx_calls(f) ==
    IF runt(f) THEN << "free" >>
    ELSE IF is_multicast(f.dst) THEN and_return(tx_sta \o << "receive_ap" >>)
    ELSE IF f.dst = s_ap_mac THEN and_return(<< "receive_ap" >>)
    ELSE tx_sta \o << "free" >>

\* on_ap_rx(buffer, len, eb) at time t: what it does to the state
on_ap_rx(f, t) ==
    /\ s_macnat' = IF ~runt(f) /\ rewrites_upstream(f)
                   THEN macnat_rewrite_upstream(s_macnat, f, t)
                   ELSE s_macnat
    /\ UNCHANGED << s_ap_ip_from_sniff, ap_ip, ap_dhcps >>

(* ---------------------------------------------------------------------- *)
(* request_mac_clone / request_mac_restore: xTaskCreate(mac_change_task)   *)
(* ---------------------------------------------------------------------- *)
request_mac_clone(m) ==
    /\ Len(tasks) < MaxTasks
    /\ tasks' = Append(tasks, [pc |-> "take", clone |-> TRUE, mac |-> m])

request_mac_restore ==
    /\ Len(tasks) < MaxTasks
    /\ tasks' = Append(tasks, [pc |-> "take", clone |-> FALSE,
                                mac |-> s_original_sta_mac])

(* ---------------------------------------------------------------------- *)
(* wifi_event_handler / ip_event_handler (event loop task)                 *)
(* ---------------------------------------------------------------------- *)
Dispatch(type) ==
    /\ evt_pc = "idle"
    /\ evq # << >>
    /\ Head(evq).type = type
    /\ evq' = Tail(evq)

\* case WIFI_EVENT_STA_START
on_STA_START ==
    /\ Dispatch("STA_START")
    /\ link' = IF ~s_suppress_auto_reconnect THEN esp_wifi_connect(link) ELSE link
    /\ UNCHANGED << flagVars, clientVars, anchorVars, taskVars, apVars,
                    s_wifi_event_group, evt_pc, sta_mac, sta_cfg, sta_list,
                    sta_dhcpc, ip_has,
                    aps_in_range,
                    natVars >>

\* case WIFI_EVENT_STA_CONNECTED, first part: flag, event bits, anchor
on_STA_CONNECTED ==
    /\ Dispatch("STA_CONNECTED")
    /\ s_sta_connected' = TRUE
    /\ s_wifi_event_group' =
           (s_wifi_event_group \cup {STA_CONNECTED_BIT}) \ {STA_DISCONNECTED_BIT}
    /\ IF ~s_bssid_locked
       THEN /\ s_upstream_bssid' = Head(evq).arg
            /\ s_upstream_channel' = Channel[Head(evq).arg]
            /\ s_bssid_locked' = TRUE
       ELSE UNCHANGED anchorVars
    /\ evt_pc' = "conn_gate"
    /\ UNCHANGED << s_state, s_forwarding_active, s_mac_cloned,
                    s_suppress_auto_reconnect, rxcb, clientVars, taskVars,
                    apVars, drvVars,
                    natVars >>

\* a handler that starts forwarding on every STA_CONNECTED
cloned_gate_always == TRUE

\* the test that guards forwarding_start in the STA_CONNECTED handler
cloned_gate == s_mac_cloned

\* case WIFI_EVENT_STA_CONNECTED, second part: if (s_mac_cloned) forwarding_start()
on_STA_CONNECTED_gate ==
    /\ evt_pc = "conn_gate"
    /\ IF cloned_gate
       THEN forwarding_start
       ELSE UNCHANGED << s_forwarding_active, rxcb >>
    /\ evt_pc' = "idle"
    /\ UNCHANGED << s_state, s_sta_connected, s_mac_cloned,
                    s_suppress_auto_reconnect, clientVars, anchorVars,
                    taskVars, apVars, drvVars, s_wifi_event_group, evq,
                    natVars >>

\* case WIFI_EVENT_STA_DISCONNECTED, first part: flag and event bits
on_STA_DISCONNECTED ==
    /\ Dispatch("STA_DISCONNECTED")
    /\ s_sta_connected' = FALSE
    /\ s_wifi_event_group' =
           (s_wifi_event_group \cup {STA_DISCONNECTED_BIT}) \ {STA_CONNECTED_BIT}
    /\ evt_pc' = "disc_stop"
    /\ UNCHANGED << s_state, s_forwarding_active, s_mac_cloned,
                    s_suppress_auto_reconnect, rxcb, clientVars, anchorVars,
                    taskVars, apVars, drvVars,
                    natVars >>

\* case WIFI_EVENT_STA_DISCONNECTED, second part: forwarding_stop and the
\* suppression test
on_STA_DISCONNECTED_stop ==
    /\ evt_pc = "disc_stop"
    /\ forwarding_stop
    /\ evt_pc' = IF ~s_suppress_auto_reconnect THEN "disc_delay" ELSE "idle"
    /\ UNCHANGED << s_state, s_sta_connected, s_mac_cloned,
                    s_suppress_auto_reconnect, clientVars, anchorVars,
                    taskVars, apVars, drvVars, s_wifi_event_group, evq,
                    natVars >>

\* case WIFI_EVENT_STA_DISCONNECTED, third part: esp_wifi_connect() after
\* the one second delay
on_STA_DISCONNECTED_reconnect ==
    /\ evt_pc = "disc_delay"
    /\ link' = esp_wifi_connect(link)
    /\ evt_pc' = "idle"
    /\ UNCHANGED << flagVars, clientVars, anchorVars, taskVars, apVars,
                    s_wifi_event_group, evq, sta_mac, sta_cfg, sta_list,
                    sta_dhcpc, ip_has,
                    aps_in_range,
                    natVars >>

\* case WIFI_EVENT_AP_STACONNECTED
on_AP_STACONNECTED ==
    /\ Dispatch("AP_STACONNECTED")
    /\ s_client_count' = s_client_count + 1
    /\ IF s_state = STATE_IDLE /\ ~s_mac_cloned
       THEN /\ s_client_mac' = Head(evq).arg
            /\ request_mac_clone(Head(evq).arg)
       ELSE UNCHANGED << s_client_mac, tasks >>
    /\ UNCHANGED << flagVars, anchorVars, apVars, drvVars, s_wifi_event_group,
                    s_mac_task_mutex, evt_pc,
                    natVars >>

\* the driver's client list without the leaving client, in list order
Remaining(m) == SelectSeq(sta_list, LAMBDA c : c # m)

\* case WIFI_EVENT_AP_STADISCONNECTED
on_AP_STADISCONNECTED ==
    /\ Dispatch("AP_STADISCONNECTED")
    /\ s_client_count' = IF s_client_count > 0 THEN s_client_count - 1
                                                ELSE s_client_count
    /\ IF s_mac_cloned /\ Head(evq).arg = s_client_mac
       THEN IF Len(Remaining(Head(evq).arg)) = 0
            THEN /\ request_mac_restore
                 /\ UNCHANGED s_client_mac
            ELSE /\ s_client_mac' = Remaining(Head(evq).arg)[1]
                 /\ request_mac_clone(Remaining(Head(evq).arg)[1])
       ELSE UNCHANGED << s_client_mac, tasks >>
    /\ UNCHANGED << flagVars, anchorVars, apVars, drvVars, s_wifi_event_group,
                    s_mac_task_mutex, evt_pc,
                    natVars >>

\* ip_event_handler, IP_EVENT_STA_GOT_IP
on_STA_GOT_IP ==
    /\ Dispatch("STA_GOT_IP")
    /\ s_wifi_event_group' = s_wifi_event_group \cup {STA_CONNECTED_BIT}
    /\ ap_mirror_sta_ip(Head(evq).arg)
    /\ UNCHANGED << flagVars, clientVars, anchorVars, taskVars, drvVars,
                    s_ap_ip_from_sniff, evt_pc,
                    natVars >>

\* ip_event_handler, IP_EVENT_STA_LOST_IP
on_STA_LOST_IP ==
    /\ Dispatch("STA_LOST_IP")
    /\ ap_restore_management_ip
    /\ UNCHANGED << flagVars, clientVars, anchorVars, taskVars, drvVars,
                    s_ap_ip_from_sniff, s_wifi_event_group, evt_pc,
                    natVars >>

wifi_event_handler ==
    \/ on_STA_START
    \/ on_STA_CONNECTED
    \/ on_STA_CONNECTED_gate
    \/ on_STA_DISCONNECTED
    \/ on_STA_DISCONNECTED_stop
    \/ on_STA_DISCONNECTED_reconnect
    \/ on_AP_STACONNECTED
    \/ on_AP_STADISCONNECTED

ip_event_handler ==
    \/ on_STA_GOT_IP
    \/ on_STA_LOST_IP

(* ---------------------------------------------------------------------- *)
(* mac_change_task (worker), one action per stretch between two points    *)
(* where the event loop task can run in between                            *)
(* ---------------------------------------------------------------------- *)
At(t, pc) == tasks[t].pc = pc
Goto(t, pc) == tasks' = [tasks EXCEPT ![t].pc = pc]

\* vTaskDelete(NULL): the task list without task t
Deleted(t) == SubSeq(tasks, 1, t - 1) \o SubSeq(tasks, t + 1, Len(tasks))
\* the holder's index once task t is gone from the list
Reindex(h, t) == IF h > t THEN h - 1 ELSE h

\* esp_wifi_disconnect() as called by the worker
worker_disconnect ==
    \E post \in esp_wifi_disconnect_posts(link) :
        /\ post => EvqRoom
        /\ link' = "down"
        /\ evq' = IF post THEN Append(evq, Event("STA_DISCONNECTED", "-"))
                          ELSE evq

\* a semaphore that can be taken while it is held
mutex_always_available == TRUE

\* xSemaphoreTake succeeds only on a free mutex
mutex_available == s_mac_task_mutex = NoHolder

\* xSemaphoreTake(s_mac_task_mutex, 5000 ms) returns pdTRUE
sem_take(t) ==
    /\ At(t, "take")
    /\ \A u \in 1..(t - 1) : ~At(u, "take")
    /\ mutex_available
    /\ s_mac_task_mutex' = t
    /\ Goto(t, IF tasks[t].clone THEN "clone_begin" ELSE "restore_begin")
    /\ UNCHANGED << flagVars, clientVars, anchorVars, apVars, drvVars,
                    s_wifi_event_group, evt_pc, evq,
                    natVars >>

\* xSemaphoreTake times out: the request is dropped
sem_timeout(t) ==
    /\ At(t, "take")
    /\ s_mac_task_mutex # NoHolder
    /\ tasks' = Deleted(t)
    /\ s_mac_task_mutex' = Reindex(s_mac_task_mutex, t)
    /\ UNCHANGED << flagVars, clientVars, anchorVars, apVars, drvVars,
                    s_wifi_event_group, evt_pc, evq,
                    natVars >>

\* clone: s_state = STATE_MAC_CHANGING; forwarding_stop()
clone_begin(t) ==
    /\ At(t, "clone_begin")
    /\ s_state' = STATE_MAC_CHANGING
    /\ forwarding_stop
    /\ Goto(t, "clone_disconnect")
    /\ UNCHANGED << s_sta_connected, s_mac_cloned, s_suppress_auto_reconnect,
                    clientVars, anchorVars, apVars, drvVars,
                    s_wifi_event_group, evt_pc, evq, s_mac_task_mutex,
                    natVars >>

\* clone: s_suppress_auto_reconnect = true; esp_wifi_disconnect()
clone_disconnect(t) ==
    /\ At(t, "clone_disconnect")
    /\ s_suppress_auto_reconnect' = TRUE
    /\ worker_disconnect
    /\ Goto(t, "clone_wait_disc")
    /\ UNCHANGED << s_state, s_sta_connected, s_forwarding_active, s_mac_cloned,
                    rxcb, clientVars, anchorVars, apVars, s_wifi_event_group,
                    evt_pc, s_mac_task_mutex, sta_mac,
                    sta_cfg, sta_list, sta_dhcpc, ip_has,
                    aps_in_range,
                    natVars >>

\* xEventGroupWaitBits(STA_DISCONNECTED_BIT, clear on exit, 5000 ms): returns
\* with the bit cleared when it is set, or times out when it is not
wait_disconnected_bits == s_wifi_event_group \ {STA_DISCONNECTED_BIT}

\* clone: wait for the disconnect, vTaskDelay(100 ms)
clone_wait_disc(t) ==
    /\ At(t, "clone_wait_disc")
    /\ s_wifi_event_group' = wait_disconnected_bits
    /\ Goto(t, "clone_set_mac")
    /\ UNCHANGED << flagVars, clientVars, anchorVars, apVars, drvVars,
                    evt_pc, evq, s_mac_task_mutex,
                    natVars >>

\* clone: esp_netif_dhcpc_stop, dummy static address, esp_wifi_set_mac(target)
clone_set_mac(t) ==
    /\ At(t, "clone_set_mac")
    /\ sta_dhcpc' = FALSE
    /\ ip_has' = FALSE
    /\ \E ok \in BOOLEAN :
          /\ sta_mac' = esp_wifi_set_mac(ok, tasks[t].mac)
          /\ Goto(t, IF ok THEN "clone_mark" ELSE "clone_set_mac_failed")
    /\ UNCHANGED << flagVars, clientVars, anchorVars, apVars,
                    s_wifi_event_group, evt_pc, evq, s_mac_task_mutex, sta_cfg, link, sta_list,
                    aps_in_range,
                    natVars >>

\* clone, err != ESP_OK: set_mac(original) unchecked, clear suppression,
\* connect, give the mutex, delete the task
clone_set_mac_failed(t) ==
    /\ At(t, "clone_set_mac_failed")
    /\ \E ok \in BOOLEAN : sta_mac' = esp_wifi_set_mac(ok, s_original_sta_mac)
    /\ s_suppress_auto_reconnect' = FALSE
    /\ link' = esp_wifi_connect(link)
    /\ s_mac_task_mutex' = NoHolder
    /\ tasks' = Deleted(t)
    /\ UNCHANGED << s_state, s_sta_connected, s_forwarding_active, s_mac_cloned,
                    rxcb, clientVars, anchorVars, apVars, s_wifi_event_group,
                    evt_pc, evq, sta_cfg, sta_list, sta_dhcpc,
                    ip_has,
                    aps_in_range,
                    natVars >>

\* a clone that reconnects without pinning the STA configuration
clone_mark_unpinned(t) ==
    /\ At(t, "clone_mark")
    /\ s_mac_cloned' = TRUE
    /\ sta_cfg' = sta_cfg
    /\ Goto(t, "clone_connect")
    /\ UNCHANGED << s_state, s_sta_connected, s_forwarding_active,
                    s_suppress_auto_reconnect, rxcb, clientVars, anchorVars,
                    apVars, s_wifi_event_group, evt_pc, evq, s_mac_task_mutex, sta_mac, link, sta_list, sta_dhcpc,
                    ip_has,
                    aps_in_range,
                    natVars >>

\* clone: s_mac_cloned = true; pin the STA config to the locked anchor
clone_mark(t) ==
    /\ At(t, "clone_mark")
    /\ s_mac_cloned' = TRUE
    /\ sta_cfg' = IF s_bssid_locked
                  THEN [bssid_set |-> TRUE, bssid |-> s_upstream_bssid,
                        channel |-> s_upstream_channel]
                  ELSE sta_cfg
    /\ Goto(t, "clone_connect")
    /\ UNCHANGED << s_state, s_sta_connected, s_forwarding_active,
                    s_suppress_auto_reconnect, rxcb, clientVars, anchorVars,
                    apVars, s_wifi_event_group, evt_pc, evq, s_mac_task_mutex, sta_mac, link, sta_list, sta_dhcpc,
                    ip_has,
                    aps_in_range,
                    natVars >>

\* clone: vTaskDelay(200 ms); s_suppress_auto_reconnect = false; esp_wifi_connect()
clone_connect(t) ==
    /\ At(t, "clone_connect")
    /\ s_suppress_auto_reconnect' = FALSE
    /\ link' = esp_wifi_connect(link)
    /\ Goto(t, "clone_wait_conn")
    /\ UNCHANGED << s_state, s_sta_connected, s_forwarding_active, s_mac_cloned,
                    rxcb, clientVars, anchorVars, apVars, s_wifi_event_group,
                    evt_pc, evq, s_mac_task_mutex, sta_mac,
                    sta_cfg, sta_list, sta_dhcpc, ip_has,
                    aps_in_range,
                    natVars >>

\* clone: xEventGroupWaitBits(STA_CONNECTED_BIT, 15000 ms) returns the bit set
clone_connected(t) ==
    /\ At(t, "clone_wait_conn")
    /\ STA_CONNECTED_BIT \in s_wifi_event_group
    /\ s_state' = STATE_BRIDGING
    /\ Goto(t, "exit_clone_ok")
    /\ UNCHANGED << s_sta_connected, s_forwarding_active, s_mac_cloned,
                    s_suppress_auto_reconnect, rxcb, clientVars, anchorVars,
                    apVars, drvVars, s_wifi_event_group, evt_pc, evq,
                    s_mac_task_mutex,
                    natVars >>

\* a wait for STA_CONNECTED_BIT without a timeout
clone_waits_forever(t) ==
    /\ At(t, "clone_wait_conn")
    /\ FALSE
    /\ UNCHANGED vars

\* clone: the wait for STA_CONNECTED_BIT times out;
\* s_suppress_auto_reconnect = true; esp_wifi_disconnect()
clone_timeout(t) ==
    /\ At(t, "clone_wait_conn")
    /\ STA_CONNECTED_BIT \notin s_wifi_event_group
    /\ s_suppress_auto_reconnect' = TRUE
    /\ worker_disconnect
    /\ Goto(t, "clone_fallback_mac")
    /\ UNCHANGED << s_state, s_sta_connected, s_forwarding_active, s_mac_cloned,
                    rxcb, clientVars, anchorVars, apVars, s_wifi_event_group,
                    evt_pc, s_mac_task_mutex, sta_mac,
                    sta_cfg, sta_list, sta_dhcpc, ip_has,
                    aps_in_range,
                    natVars >>

\* STA config with bssid_set = false, channel = 0
unpinned(cfg) == [cfg EXCEPT !.bssid_set = FALSE, !.channel = 0]

\* clone timeout: set_mac(original) unchecked; s_mac_cloned = false;
\* dhcpc_start; unpin
clone_fallback_mac(t) ==
    /\ At(t, "clone_fallback_mac")
    /\ \E ok \in BOOLEAN : sta_mac' = esp_wifi_set_mac(ok, s_original_sta_mac)
    /\ s_mac_cloned' = FALSE
    /\ sta_dhcpc' = TRUE
    /\ sta_cfg' = unpinned(sta_cfg)
    /\ Goto(t, "clone_fallback_connect")
    /\ UNCHANGED << s_state, s_sta_connected, s_forwarding_active,
                    s_suppress_auto_reconnect, rxcb, clientVars, anchorVars,
                    apVars, s_wifi_event_group, evt_pc, evq, s_mac_task_mutex, link, sta_list, ip_has,
                    aps_in_range,
                    natVars >>

\* a timeout fallback that reconnects with the suppression still asserted
clone_fallback_connect_suppressed(t) ==
    /\ At(t, "clone_fallback_connect")
    /\ s_suppress_auto_reconnect' = s_suppress_auto_reconnect
    /\ link' = esp_wifi_connect(link)
    /\ s_state' = STATE_IDLE
    /\ Goto(t, "exit_clone_timeout")
    /\ UNCHANGED << s_sta_connected, s_forwarding_active, s_mac_cloned, rxcb,
                    clientVars, anchorVars, apVars, s_wifi_event_group, evt_pc,
                    evq, s_mac_task_mutex, sta_mac, sta_cfg,
                    sta_list, sta_dhcpc, ip_has,
                    aps_in_range,
                    natVars >>

\* clone timeout: s_suppress_auto_reconnect = false; esp_wifi_connect();
\* s_state = STATE_IDLE
clone_fallback_connect(t) ==
    /\ At(t, "clone_fallback_connect")
    /\ s_suppress_auto_reconnect' = FALSE
    /\ link' = esp_wifi_connect(link)
    /\ s_state' = STATE_IDLE
    /\ Goto(t, "exit_clone_timeout")
    /\ UNCHANGED << s_sta_connected, s_forwarding_active, s_mac_cloned, rxcb,
                    clientVars, anchorVars, apVars, s_wifi_event_group, evt_pc,
                    evq, s_mac_task_mutex, sta_mac, sta_cfg,
                    sta_list, sta_dhcpc, ip_has,
                    aps_in_range,
                    natVars >>

\* restore: s_state = STATE_MAC_RESTORING; forwarding_stop()
restore_begin(t) ==
    /\ At(t, "restore_begin")
    /\ s_state' = STATE_MAC_RESTORING
    /\ forwarding_stop
    /\ Goto(t, "restore_disconnect")
    /\ UNCHANGED << s_sta_connected, s_mac_cloned, s_suppress_auto_reconnect,
                    clientVars, anchorVars, apVars, drvVars,
                    s_wifi_event_group, evt_pc, evq, s_mac_task_mutex,
                    natVars >>

\* restore: s_suppress_auto_reconnect = true; esp_wifi_disconnect()
restore_disconnect(t) ==
    /\ At(t, "restore_disconnect")
    /\ s_suppress_auto_reconnect' = TRUE
    /\ worker_disconnect
    /\ Goto(t, "restore_wait_disc")
    /\ UNCHANGED << s_state, s_sta_connected, s_forwarding_active, s_mac_cloned,
                    rxcb, clientVars, anchorVars, apVars, s_wifi_event_group,
                    evt_pc, s_mac_task_mutex, sta_mac,
                    sta_cfg, sta_list, sta_dhcpc, ip_has,
                    aps_in_range,
                    natVars >>

\* restore: wait for the disconnect, vTaskDelay(100 ms)
restore_wait_disc(t) ==
    /\ At(t, "restore_wait_disc")
    /\ s_wifi_event_group' = wait_disconnected_bits
    /\ Goto(t, "restore_set_mac")
    /\ UNCHANGED << flagVars, clientVars, anchorVars, apVars, drvVars,
                    evt_pc, evq, s_mac_task_mutex,
                    natVars >>

\* restore: set_mac(original) unchecked; s_mac_cloned = false; dhcpc_start;
\* macnat_clear(); s_ap_ip_from_sniff = false; ap_restore_management_ip();
\* unpin
restore_set_mac(t) ==
    /\ At(t, "restore_set_mac")
    /\ \E ok \in BOOLEAN : sta_mac' = esp_wifi_set_mac(ok, s_original_sta_mac)
    /\ s_mac_cloned' = FALSE
    /\ sta_dhcpc' = TRUE
    /\ s_macnat' = macnat_clear
    /\ s_ap_ip_from_sniff' = FALSE
    /\ ap_restore_management_ip
    /\ sta_cfg' = unpinned(sta_cfg)
    /\ Goto(t, "restore_connect")
    /\ UNCHANGED << s_state, s_sta_connected, s_forwarding_active,
                    s_suppress_auto_reconnect, rxcb, clientVars, anchorVars,
                    s_wifi_event_group, evt_pc, evq, s_mac_task_mutex, link,
                    sta_list, ip_has, aps_in_range, now, last_call >>

\* restore: vTaskDelay(200 ms); s_suppress_auto_reconnect = false; esp_wifi_connect()
restore_connect(t) ==
    /\ At(t, "restore_connect")
    /\ s_suppress_auto_reconnect' = FALSE
    /\ link' = esp_wifi_connect(link)
    /\ Goto(t, "restore_wait_conn")
    /\ UNCHANGED << s_state, s_sta_connected, s_forwarding_active, s_mac_cloned,
                    rxcb, clientVars, anchorVars, apVars, s_wifi_event_group,
                    evt_pc, evq, s_mac_task_mutex, sta_mac,
                    sta_cfg, sta_list, sta_dhcpc, ip_has,
                    aps_in_range,
                    natVars >>

\* restore: the wait for STA_CONNECTED_BIT returns (bit set or timeout);
\* s_state = STATE_IDLE
restore_finish(t) ==
    /\ At(t, "restore_wait_conn")
    /\ s_state' = STATE_IDLE
    /\ Goto(t, "exit_restore")
    /\ UNCHANGED << s_sta_connected, s_forwarding_active, s_mac_cloned,
                    s_suppress_auto_reconnect, rxcb, clientVars, anchorVars,
                    apVars, drvVars, s_wifi_event_group, evt_pc, evq,
                    s_mac_task_mutex,
                    natVars >>

\* xSemaphoreGive(s_mac_task_mutex); free(params); vTaskDelete(NULL)
task_exit(t) ==
    /\ tasks[t].pc \in {"exit_clone_ok", "exit_clone_timeout", "exit_restore"}
    /\ s_mac_task_mutex' = NoHolder
    /\ tasks' = Deleted(t)
    /\ UNCHANGED << flagVars, clientVars, anchorVars, apVars, drvVars,
                    s_wifi_event_group, evt_pc, evq,
                    natVars >>

(* ---------------------------------------------------------------------- *)
(* Radio driver and netif: what happens outside the core                   *)
(* ---------------------------------------------------------------------- *)
\* the access points an association attempt can end on
Reachable_aps == IF sta_cfg.bssid_set THEN {sta_cfg.bssid} ELSE aps_in_range

\* an association attempt succeeds: STA_CONNECTED(bssid, channel) is posted
drv_connected ==
    /\ link = "connecting"
    /\ EvqRoom
    /\ \E ap \in Reachable_aps : evq' = Append(evq, Event("STA_CONNECTED", ap))
    /\ link' = "up"
    /\ UNCHANGED << flagVars, clientVars, anchorVars, taskVars, apVars,
                    s_wifi_event_group, evt_pc, sta_mac, sta_cfg, sta_list,
                    sta_dhcpc, ip_has,
                    aps_in_range,
                    natVars >>

\* an association attempt fails or the link is lost: STA_DISCONNECTED is posted
drv_disconnected ==
    /\ link \in {"connecting", "up"}
    /\ EvqRoom
    /\ evq' = Append(evq, Event("STA_DISCONNECTED", "-"))
    /\ link' = "down"
    /\ UNCHANGED << flagVars, clientVars, anchorVars, taskVars, apVars,
                    s_wifi_event_group, evt_pc, sta_mac, sta_cfg, sta_list,
                    sta_dhcpc, ip_has,
                    aps_in_range,
                    natVars >>

\* the STA netif gets (or renews) its address on the link: the DHCP lease
\* when the DHCP client runs, the static 169.254.1.1 placeholder otherwise
netif_got_ip ==
    /\ link = "up"
    /\ EvqRoom
    /\ evq' = Append(evq, Event("STA_GOT_IP",
                                IF sta_dhcpc THEN "dhcp" ELSE "linklocal"))
    /\ ip_has' = (sta_dhcpc \/ ip_has)
    /\ UNCHANGED << flagVars, clientVars, anchorVars, taskVars, apVars,
                    s_wifi_event_group, evt_pc, sta_mac, sta_cfg, link,
                    sta_list, sta_dhcpc,
                    aps_in_range,
                    natVars >>

\* the lease is given up after the link stayed down
netif_lost_ip ==
    /\ link # "up"
    /\ ip_has
    /\ EvqRoom
    /\ evq' = Append(evq, Event("STA_LOST_IP", "-"))
    /\ ip_has' = FALSE
    /\ UNCHANGED << flagVars, clientVars, anchorVars, taskVars, apVars,
                    s_wifi_event_group, evt_pc, sta_mac, sta_cfg, link,
                    sta_list, sta_dhcpc,
                    aps_in_range,
                    natVars >>

\* a client associates to the AP: the driver lists it and posts the event
ap_client_join(m) ==
    /\ \A i \in 1..Len(sta_list) : sta_list[i] # m
    /\ EvqRoom
    /\ sta_list' = Append(sta_list, m)
    /\ evq' = Append(evq, Event("AP_STACONNECTED", m))
    /\ UNCHANGED << flagVars, clientVars, anchorVars, taskVars, apVars,
                    s_wifi_event_group, evt_pc, sta_mac, sta_cfg, link,
                    sta_dhcpc, ip_has,
                    aps_in_range,
                    natVars >>

\* a client leaves the AP: the driver unlists it and posts the event
ap_client_leave(m) ==
    /\ \E i \in 1..Len(sta_list) : sta_list[i] = m
    /\ EvqRoom
    /\ sta_list' = Remaining(m)
    /\ evq' = Append(evq, Event("AP_STADISCONNECTED", m))
    /\ UNCHANGED << flagVars, clientVars, anchorVars, taskVars, apVars,
                    s_wifi_event_group, evt_pc, sta_mac, sta_cfg, link,
                    sta_dhcpc, ip_has,
                    aps_in_range,
                    natVars >>

(* ---------------------------------------------------------------------- *)
(* Specification                                                           *)
(* ---------------------------------------------------------------------- *)
\* the radio events, the worker and the radio driver
Next ==
    \/ wifi_event_handler
    \/ \E t \in DOMAIN tasks : sem_take(t)
    \/ \E t \in DOMAIN tasks : sem_timeout(t)
    \/ \E t \in DOMAIN tasks : clone_begin(t)
    \/ \E t \in DOMAIN tasks : clone_disconnect(t)
    \/ \E t \in DOMAIN tasks : clone_wait_disc(t)
    \/ \E t \in DOMAIN tasks : clone_set_mac(t)
    \/ \E t \in DOMAIN tasks : clone_set_mac_failed(t)
    \/ \E t \in DOMAIN tasks : clone_mark(t)
    \/ \E t \in DOMAIN tasks : clone_connect(t)
    \/ \E t \in DOMAIN tasks : clone_connected(t)
    \/ \E t \in DOMAIN tasks : clone_timeout(t)
    \/ \E t \in DOMAIN tasks : clone_fallback_mac(t)
    \/ \E t \in DOMAIN tasks : clone_fallback_connect(t)
    \/ \E t \in DOMAIN tasks : restore_begin(t)
    \/ \E t \in DOMAIN tasks : restore_disconnect(t)
    \/ \E t \in DOMAIN tasks : restore_wait_disc(t)
    \/ \E t \in DOMAIN tasks : restore_set_mac(t)
    \/ \E t \in DOMAIN tasks : restore_connect(t)
    \/ \E t \in DOMAIN tasks : restore_finish(t)
    \/ \E t \in DOMAIN tasks : task_exit(t)
    \/ drv_connected
    \/ drv_disconnected
    \/ \E m \in Clients : ap_client_join(m)
    \/ \E m \in Clients : ap_client_leave(m)

Spec == Init /\ [][Next]_vars

\* the same with the IP events of the STA netif
NextIp ==
    \/ Next
    \/ ip_event_handler
    \/ netif_got_ip
    \/ netif_lost_ip

SpecIp == Init /\ [][NextIp]_vars

TypeOK ==
    /\ s_state \in {STATE_IDLE, STATE_MAC_CHANGING, STATE_BRIDGING,
                    STATE_MAC_RESTORING}
    /\ s_client_mac \in Clients \cup {ZeroMac}
    /\ sta_mac \in Clients \cup {s_original_sta_mac}
    /\ s_mac_task_mutex \in 0..MaxTasks
    /\ Len(tasks) <= MaxTasks
    /\ Len(evq) <= MaxEvq
    /\ s_client_count \in 0..Cardinality(Clients)

(* ---------------------------------------------------------------------- *)
(* The repeater with a driver that reports a leave twice (the second       *)
(* AP_STADISCONNECTED of an SA Query timeout)                              *)
(* ---------------------------------------------------------------------- *)
\* a client leaves the AP: the driver unlists it and posts the event twice
ap_client_leave_twice(m) ==
    /\ \E i \in 1..Len(sta_list) : sta_list[i] = m
    /\ evq = << >>
    /\ sta_list' = Remaining(m)
    /\ evq' = << Event("AP_STADISCONNECTED", m),
                 Event("AP_STADISCONNECTED", m) >>
    /\ UNCHANGED << flagVars, clientVars, anchorVars, taskVars, apVars,
                    s_wifi_event_group, evt_pc, sta_mac, sta_cfg, link,
                    sta_dhcpc, ip_has, aps_in_range, natVars >>

NextDup ==
    \/ Next
    \/ \E m \in Clients : ap_client_leave_twice(m)

SpecDup == Init /\ [][NextDup]_vars

(* ---------------------------------------------------------------------- *)
(* The repeater under fair scheduling: the event loop task and every       *)
(* mac_change_task are FreeRTOS tasks that run when they are ready, a      *)
(* bounded wait ends, and an association attempt of the driver ends (in    *)
(* STA_CONNECTED or in STA_DISCONNECTED)                                   *)
(* ---------------------------------------------------------------------- *)
\* mac_change_task: the next step of task t
mac_change_task(t) ==
    /\ t \in DOMAIN tasks
    /\ \/ sem_take(t) \/ sem_timeout(t)
       \/ clone_begin(t) \/ clone_disconnect(t) \/ clone_wait_disc(t)
       \/ clone_set_mac(t) \/ clone_set_mac_failed(t) \/ clone_mark(t)
       \/ clone_connect(t) \/ clone_connected(t) \/ clone_timeout(t)
       \/ clone_fallback_mac(t) \/ clone_fallback_connect(t)
       \/ restore_begin(t) \/ restore_disconnect(t) \/ restore_wait_disc(t)
       \/ restore_set_mac(t) \/ restore_connect(t) \/ restore_finish(t)
       \/ task_exit(t)

\* the association attempt in progress ends
drv_attempt_ends == drv_connected \/ drv_disconnected

Fairness ==
    /\ WF_vars(wifi_event_handler)
    /\ \A t \in 1..MaxTasks : WF_vars(mac_change_task(t))
    /\ WF_vars(drv_attempt_ends)

(* ---------------------------------------------------------------------- *)
(* A join during a restore: client A joins and leaves, client B joins      *)
(* only while the state is MAC_RESTORING and stays; once B has joined no   *)
(* further join event is posted                                            *)
(* ---------------------------------------------------------------------- *)
\* client m is in the driver's list
Listed(m) == \E i \in DOMAIN sta_list : sta_list[i] = m

NextRestoreJoin ==
    \/ wifi_event_handler
    \/ \E t \in DOMAIN tasks : mac_change_task(t)
    \/ drv_connected
    \/ drv_disconnected
    \/ ~Listed("B") /\ ap_client_join("A")
    \/ ap_client_leave("A")
    \/ s_state = STATE_MAC_RESTORING /\ ap_client_join("B")

SpecRestoreJoin == Init /\ [][NextRestoreJoin]_vars /\ Fairness

(* ---------------------------------------------------------------------- *)
(* Re-clone on primary leave: client A joins and is cloned, client B joins *)
(* while A is bridged, then A leaves.  The upstream link may drop and come *)
(* back at any time.  Timing: a handler runs to its end (or to its one     *)
(* second delay) before the lower-priority worker goes on, the 5 s wait    *)
(* for STA_DISCONNECTED_BIT does not expire while a STA_DISCONNECTED is    *)
(* queued or being handled, and the STA reassociates within the 15 s wait. *)
(* ---------------------------------------------------------------------- *)
\* a WIFI_EVENT_STA_DISCONNECTED is queued or its handler has not yet
\* reached forwarding_stop
DiscComing ==
    \/ evt_pc = "disc_stop"
    \/ \E i \in DOMAIN evq : evq[i].type = "STA_DISCONNECTED"

\* the event loop task is not inside a handler, or sleeps in vTaskDelay
handler_yields == evt_pc \in {"idle", "disc_delay"}

\* task t's 15 s wait for STA_CONNECTED_BIT, if it is in it, does not expire
associates_in_time(t) ==
    tasks[t].pc = "clone_wait_conn" => STA_CONNECTED_BIT \in s_wifi_event_group

\* task t's bounded wait, if it is in one, ends before its timeout
within_timeouts(t) ==
    /\ tasks[t].pc \in {"clone_wait_disc", "restore_wait_disc"} =>
           (STA_DISCONNECTED_BIT \in s_wifi_event_group \/ ~DiscComing)
    /\ associates_in_time(t)

\* client A is the bridged primary and no worker is alive
APrimary ==
    /\ s_state = STATE_BRIDGING
    /\ s_mac_cloned
    /\ s_client_mac = "A"
    /\ sta_mac = "A"
    /\ tasks = << >>

NextReclone ==
    \/ wifi_event_handler
    \/ \E t \in DOMAIN tasks :
          handler_yields /\ within_timeouts(t) /\ mac_change_task(t)
    \/ drv_connected
    \/ drv_disconnected
    \/ ~Listed("B") /\ tasks = << >> /\ ap_client_join("A")
    \/ APrimary /\ Listed("A") /\ ap_client_join("B")
    \/ ap_client_leave("A")

SpecReclone == Init /\ [][NextReclone]_vars

(* ---------------------------------------------------------------------- *)
(* A single client: client A joins (at any moment after start-up) and      *)
(* stays, the upstream access point accepts every association attempt and  *)
(* holds the link, esp_wifi_set_mac(target) succeeds and the STA           *)
(* reassociates within the 15 s wait.  The event loop task, the worker and *)
(* the driver's association attempt are scheduled fairly.                  *)
(* ---------------------------------------------------------------------- *)
\* task t's esp_wifi_set_mac(target), if it is about to call it, succeeds
set_mac_succeeds(t) ==
    tasks[t].pc = "clone_set_mac" => sta_mac' = tasks[t].mac

solo_task(t) ==
    /\ t \in DOMAIN tasks
    /\ associates_in_time(t)
    /\ mac_change_task(t)
    /\ set_mac_succeeds(t)

NextSolo ==
    \/ on_STA_START
    \/ on_STA_CONNECTED
    \/ on_STA_CONNECTED_gate
    \/ on_STA_DISCONNECTED
    \/ on_STA_DISCONNECTED_stop
    \/ on_STA_DISCONNECTED_reconnect
    \/ on_AP_STACONNECTED
    \/ \E t \in DOMAIN tasks : solo_task(t)
    \/ drv_connected
    \/ ap_client_join("A")

FairSolo ==
    /\ WF_vars(wifi_event_handler)
    /\ \A t \in 1..MaxTasks : WF_vars(solo_task(t))
    /\ WF_vars(drv_connected)

SpecSolo == Init /\ [][NextSolo]_vars /\ FairSolo

(* ---------------------------------------------------------------------- *)
(* The last client leaves: client A joins while no worker is alive and     *)
(* leaves while it is the bridged primary.  The upstream link may drop,    *)
(* come back or fail to come back.  The event loop task is scheduled       *)
(* fairly, a worker that becomes ready again and again runs (a task        *)
(* blocked in xEventGroupWaitBits is woken when the bit is set, and a      *)
(* bounded wait expires), and an association attempt ends.                 *)
(* ---------------------------------------------------------------------- *)
NextLeave ==
    \/ wifi_event_handler
    \/ \E t \in DOMAIN tasks : mac_change_task(t)
    \/ drv_connected
    \/ drv_disconnected
    \/ tasks = << >> /\ ap_client_join("A")
    \/ APrimary /\ ap_client_leave("A")

FairLeave ==
    /\ WF_vars(wifi_event_handler)
    /\ \A t \in 1..MaxTasks : SF_vars(mac_change_task(t))
    /\ WF_vars(drv_attempt_ends)

SpecLeave == Init /\ [][NextLeave]_vars /\ FairLeave

(* ---------------------------------------------------------------------- *)
(* The MAC-NAT table on its own: macnat_learn and macnat_clear called      *)
(* with arbitrary arguments on tables that earlier calls have built        *)
(* ---------------------------------------------------------------------- *)
\* number of calls made on the table drawn by InitNat
MaxNatOps == 2

\* hardware addresses of the stations that fill the table, slot by slot
FillMac == << "A", "B", "C", "D", "E", "F", "G", "H", "I", "J" >>
\* the address station k was first seen with, and the one it renews to
\* (10.k and 11.k, network byte order)
FillIp(k) == htonl(10 * Octet + k)
RenewIp(k) == htonl(11 * Octet + k)

\* the table after stations 1..k were learned at times 1..k
RECURSIVE Filled(_)
Filled(k) ==
    IF k = 0 THEN NoTable
    ELSE macnat_learn(Filled(k - 1), FillIp(k), FillMac[k], k)

\* ... and after station j then renewed its address (j = 0: none did)
Renewed(k, j) ==
    IF j = 0 THEN Filled(k)
    ELSE macnat_learn(Filled(k), RenewIp(j), FillMac[j], k + 1)

\* arguments of the calls
NatIps == {0, FillIp(1), FillIp(2), FillIp(MACNAT_MAX), FillIp(MACNAT_MAX + 1),
           FillIp(MACNAT_MAX + 2)}
NatMacs == {"A", "B", "H", "I", "J", McastMac}

InitNat ==
    /\ InitWith({"ap1"})
    /\ \E k \in 0..MACNAT_MAX : \E j \in {0, 1} :
           /\ j <= k
           /\ s_macnat = Renewed(k, j)
           /\ now = k + 1
    /\ last_call = NoCall

\* number of calls recorded so far
Calls == IF last_call.fn = "none" THEN 0 ELSE last_call.n

\* whether the call (fn, ip, mac) repeats the call before it
Repeats(fn, ip_n, mac) ==
    /\ last_call.fn = fn
    /\ last_call.fn \in {"macnat_learn", "macnat_clear"}
    /\ last_call.ip = ip_n
    /\ last_call.mac = mac

\* macnat_learn(ip_n, mac) is called; the clock has advanced since the
\* call before
nat_learn(ip_n, mac) ==
    /\ Calls < MaxNatOps
    /\ now' = now + 1
    /\ s_macnat' = macnat_learn(s_macnat, ip_n, mac, now')
    /\ last_call' = [fn |-> "macnat_learn", n |-> Calls + 1, ip |-> ip_n,
                     mac |-> mac, before |-> s_macnat,
                     twice |-> Repeats("macnat_learn", ip_n, mac)]
    /\ UNCHANGED << flagVars, clientVars, anchorVars, taskVars, apVars,
                    drvVars, s_wifi_event_group, evt_pc, evq >>

\* macnat_clear() is called
nat_clear ==
    /\ Calls < MaxNatOps
    /\ s_macnat' = macnat_clear
    /\ last_call' = [fn |-> "macnat_clear", n |-> Calls + 1, ip |-> 0,
                     mac |-> ZeroMac, before |-> s_macnat,
                     twice |-> Repeats("macnat_clear", 0, ZeroMac)]
    /\ UNCHANGED << flagVars, clientVars, anchorVars, taskVars, apVars,
                    drvVars, s_wifi_event_group, evt_pc, evq, now >>

NextNat ==
    \/ \E ip_n \in NatIps : \E mac \in NatMacs : nat_learn(ip_n, mac)
    \/ nat_clear

SpecNat == InitNat /\ [][NextNat]_vars

(* ---------------------------------------------------------------------- *)
(* Frames arriving while the repeater bridges: the driver calls on_sta_rx  *)
(* for a frame from the upstream AP and on_ap_rx for a frame from an       *)
(* associated client                                                       *)
(* ---------------------------------------------------------------------- *)
\* number of frames received
MaxFrames == 2

\* the stations associated with the AP
Associated == {sta_list[i] : i \in DOMAIN sta_list}

\* the driver hands a frame from the upstream AP to on_sta_rx
sta_rx(f) ==
    /\ rxcb
    /\ link = "up"
    /\ now < MaxFrames
    /\ now' = now + 1
    /\ on_sta_rx(f, now')
    /\ UNCHANGED << flagVars, clientVars, anchorVars, taskVars, drvVars,
                    s_wifi_event_group, evt_pc, evq >>

\* the driver hands a frame from an associated client to on_ap_rx
ap_rx(f) ==
    /\ rxcb
    /\ f.src \in Associated
    /\ now < MaxFrames
    /\ now' = now + 1
    /\ on_ap_rx(f, now')
    /\ UNCHANGED << flagVars, clientVars, anchorVars, taskVars, drvVars,
                    s_wifi_event_group, evt_pc, evq >>

\* on_sta_rx receives f, and the call is recorded
sta_frame(f) ==
    /\ sta_rx(f)
    /\ last_call' = [fn |-> "on_sta_rx", n |-> Calls + 1, frame |-> f,
                     before |-> s_macnat, latch |-> s_ap_ip_from_sniff,
                     ap |-> << ap_ip, ap_dhcps >>,
                     calls |-> on_sta_rx_calls(s_macnat, f, now'),
                     out |-> sta_rx_frame(s_macnat, f, now')]

\* on_ap_rx receives f, and the call is recorded
ap_frame(f) ==
    /\ ap_rx(f)
    /\ last_call' = [fn |-> "on_ap_rx", n |-> Calls + 1, frame |-> f,
                     before |-> s_macnat, latch |-> s_ap_ip_from_sniff,
                     ap |-> << ap_ip, ap_dhcps >>,
                     calls |-> on_ap_rx_calls(f),
                     out |-> ap_rx_frame(f)]

\* the repeater bridges for primary client "A" with k clients associated;
\* with conn false the STA_DISCONNECTED handler has cleared s_sta_connected
\* and has not yet stopped forwarding
Bridged(k, conn) ==
    /\ aps_in_range = {"ap1"}
    /\ s_state = STATE_BRIDGING
    /\ s_sta_connected = conn
    /\ s_forwarding_active = TRUE
    /\ s_mac_cloned = TRUE
    /\ s_suppress_auto_reconnect = FALSE
    /\ s_client_mac = "A"
    /\ s_client_count = k
    /\ s_bssid_locked = TRUE
    /\ s_upstream_bssid = "ap1"
    /\ s_upstream_channel = 1
    /\ s_ap_ip_from_sniff = FALSE
    /\ s_wifi_event_group =
           IF conn THEN {STA_CONNECTED_BIT} ELSE {STA_DISCONNECTED_BIT}
    /\ s_mac_task_mutex = NoHolder
    /\ tasks = << >>
    /\ evt_pc = IF conn THEN "idle" ELSE "disc_stop"
    /\ evq = << >>
    /\ sta_mac = "A"
    /\ sta_cfg = NoPin
    /\ link = IF conn THEN "up" ELSE "down"
    /\ rxcb = TRUE
    /\ sta_list = IF k = 1 THEN << "A" >> ELSE << "A", "B" >>
    /\ sta_dhcpc = FALSE
    /\ ip_has = FALSE
    /\ ap_ip = ApMgmt
    /\ ap_dhcps = TRUE

(* ---------------------------------------------------------------------- *)
(* The sniffer on its own: DHCP replies of every shape arrive from the     *)
(* upstream AP while the repeater bridges for one client                   *)
(* ---------------------------------------------------------------------- *)
\* client and gateway addresses, host byte order: 10.0 .. 10.7 and the
\* ends of the address space
SniffHosts == (10 * Octet .. 10 * Octet + 7)
                  \cup {1, Octet - 2, Octet - 1, Octet, AddrSpace - 2,
                        AddrSpace - 1}

\* subnet masks, host byte order: no, one, two and three host bits, one
\* octet of host bits, all but one bit, and a mask with a hole
SniffMasks == {AddrSpace - 1, AddrSpace - 2, AddrSpace - 4, AddrSpace - 8,
               AddrSpace - Octet, AddrSpace \div 2, Octet - 1}

\* the ACKs for client "A" that carry an address and a mask
FullAcks ==
    {DhcpAck("A", htonl(c), htonl(m), g, "A") :
         c \in SniffHosts, m \in SniffMasks,
         g \in {0} \cup {htonl(h) : h \in SniffHosts}}

\* replies the sniffer may have to turn down: an ACK without the subnet
\* mask option, one without yiaddr, a NAK, a BOOTREQUEST, no magic cookie,
\* IP options that leave less than a DHCP message, a short frame
OddReplies ==
    LET ack == DhcpAck(BcastMac, FillIp(2), htonl(AddrSpace - Octet),
                       FillIp(1), "B")
    IN  {[ack EXCEPT !.subnet_mask = 0],
         [ack EXCEPT !.yiaddr = 0],
         [ack EXCEPT !.msg_type = 6],
         [ack EXCEPT !.op = 1],
         [ack EXCEPT !.cookie = FALSE],
         [ack EXCEPT !.ihl = 60],
         [ack EXCEPT !.len = 285]}

\* the replies that arrive once the AP address has been derived
LaterReplies ==
    {DhcpAck(BcastMac, FillIp(2), htonl(AddrSpace - Octet), FillIp(1), "B"),
     DhcpAck("A", FillIp(3), htonl(AddrSpace - 4), 0, "A"),
     DhcpAck(BcastMac, FillIp(4), htonl(AddrSpace - Octet), FillIp(1),
             McastMac)}
        \cup OddReplies

InitSniff == Bridged(1, TRUE) /\ InitTable

NextSniff ==
    \E f \in (IF latched THEN LaterReplies ELSE FullAcks \cup OddReplies) :
        sta_frame(f)

SpecSniff == InitSniff /\ [][NextSniff]_vars

(* ---------------------------------------------------------------------- *)
(* The ingress callbacks on their own: frames of every kind arrive on      *)
(* both interfaces, for every value of s_client_count and s_sta_connected  *)
(* the callbacks can run with                                              *)
(* ---------------------------------------------------------------------- *)
\* frames from the upstream AP: no buffer, a runt, an ARP broadcast, IPv4
\* to the cloned address for client "B" and for client "A", IPv4 to the
\* original address, to a stranger, a broadcast DHCP ACK for "B", a unicast
\* DHCP ACK for "A" and an IPv4 multicast
StaFrames ==
    {Plain(TRUE, 60, "A", "G", "ipv4", FillIp(7), FillIp(2)),
     Plain(FALSE, 13, "A", "G", "ipv4", FillIp(7), FillIp(2)),
     Plain(FALSE, 60, BcastMac, "G", "arp", FillIp(7), FillIp(2)),
     Plain(FALSE, 60, "A", "G", "ipv4", FillIp(7), FillIp(2)),
     Plain(FALSE, 60, "A", "G", "ipv4", FillIp(7), FillIp(1)),
     Plain(FALSE, 60, s_original_sta_mac, "G", "ipv4", FillIp(7), FillIp(9)),
     Plain(FALSE, 60, "C", "G", "ipv4", FillIp(7), FillIp(3)),
     DhcpAck(BcastMac, FillIp(2), htonl(AddrSpace - Octet), FillIp(7), "B"),
     DhcpAck("A", FillIp(1), htonl(AddrSpace - Octet), FillIp(7), "A"),
     Plain(FALSE, 60, McastMac, "G", "ipv4", FillIp(7), FillIp(9))}

\* frames from the clients: no buffer, a runt, IPv4 and an ARP broadcast
\* from the secondary client, a frame for the AP itself, multicast from the
\* primary client, a frame too short to carry an address, IPv4 from the
\* primary client and a unicast ARP from the secondary client
ApFrames ==
    {Plain(TRUE, 60, "G", "A", "ipv4", FillIp(1), FillIp(7)),
     Plain(FALSE, 13, "G", "B", "ipv4", FillIp(2), FillIp(7)),
     Plain(FALSE, 60, "G", "B", "ipv4", FillIp(2), FillIp(7)),
     Plain(FALSE, 60, BcastMac, "B", "arp", FillIp(2), FillIp(7)),
     Plain(FALSE, 60, s_ap_mac, "A", "ipv4", FillIp(1), FillIp(9)),
     Plain(FALSE, 60, McastMac, "A", "ipv4", FillIp(1), FillIp(9)),
     Plain(FALSE, 20, "G", "B", "ipv4", FillIp(2), FillIp(7)),
     Plain(FALSE, 60, "G", "A", "ipv4", FillIp(1), FillIp(7)),
     Plain(FALSE, 60, "G", "B", "arp", FillIp(3), FillIp(7))}

InitRx ==
    /\ \E k \in {1, 2} : \E conn \in BOOLEAN : Bridged(k, conn)
    /\ InitTable

NextRx ==
    \/ \E f \in StaFrames : sta_frame(f)
    \/ \E f \in ApFrames : ap_frame(f)

SpecRx == InitRx /\ [][NextRx]_vars

(* ---------------------------------------------------------------------- *)
(* Forwarding: what the callbacks transmit.  Frames for and from the       *)
(* primary client "A" and the additional client "B" (address 10.2), frames *)
(* of exactly 14 bytes, and DHCP requests of several lengths and flags     *)
(* ---------------------------------------------------------------------- *)
\* from the upstream AP, to the cloned address: IPv4 for B's, A's and an
\* unknown address, an ARP reply for B, an IPv4 frame too short for its
\* header; the DHCP ACKs that teach the table A's and B's address; frames
\* of 14 bytes to every kind of destination
FwdStaFrames ==
    {Plain(FALSE, 60, "A", "G", "ipv4", FillIp(7), FillIp(2)),
     Plain(FALSE, 60, "A", "G", "ipv4", FillIp(7), FillIp(1)),
     Plain(FALSE, 60, "A", "G", "ipv4", FillIp(7), FillIp(9)),
     Plain(FALSE, 60, "A", "G", "arp", FillIp(7), FillIp(2)),
     Plain(FALSE, 33, "A", "G", "ipv4", FillIp(7), FillIp(2)),
     DhcpAck("A", FillIp(1), htonl(AddrSpace - Octet), FillIp(7), "A"),
     DhcpAck(BcastMac, FillIp(2), htonl(AddrSpace - Octet), FillIp(7), "B")}
        \cup {Plain(FALSE, 14, d, "G", "ipv4", FillIp(7), FillIp(2)) :
                 d \in {"A", "B", "C", s_original_sta_mac, BcastMac}}
        \cup {Plain(FALSE, 14, "A", "G", "arp", FillIp(7), FillIp(2))}

\* DHCP requests of the clients: a whole message, one that ends with the
\* 44th byte of the DHCP message and one that is a byte shorter, with the
\* flags field clear, with another flag bit set and with the broadcast
\* bit set, and with IP options
FwdDhcpRequests ==
    {DhcpRequest(len, 20, src, flags, SomeChecksum) :
         len \in {300, 86, 85}, src \in {"A", "B"}, flags \in {0, 1}}
        \cup {DhcpRequest(300, 20, "B", BROADCAST_FLAG, 0),
              DhcpRequest(90, 24, "B", 0, SomeChecksum),
              DhcpRequest(89, 24, "B", 0, SomeChecksum)}

\* from the clients: IPv4 from B, from A and from B before it has an
\* address, an ARP request of B, the DHCP requests, and frames of 14 bytes
\* from both clients to every kind of destination
FwdApFrames ==
    {Plain(FALSE, 60, "G", "B", "ipv4", FillIp(2), FillIp(7)),
     Plain(FALSE, 60, "G", "A", "ipv4", FillIp(1), FillIp(7)),
     Plain(FALSE, 60, "G", "B", "ipv4", 0, FillIp(7)),
     Plain(FALSE, 60, BcastMac, "B", "arp", FillIp(2), FillIp(7))}
        \cup FwdDhcpRequests
        \cup {Plain(FALSE, 14, d, src, e, FillIp(2), FillIp(7)) :
                 d \in {"G", s_ap_mac, BcastMac}, src \in {"A", "B"},
                 e \in {"ipv4", "arp"}}

NextFwd ==
    \/ \E f \in FwdStaFrames : sta_frame(f)
    \/ \E f \in FwdApFrames : ap_frame(f)

SpecFwd == InitRx /\ [][NextFwd]_vars

(* ---------------------------------------------------------------------- *)
(* Two upstream access points in range: an unpinned association attempt    *)
(* can end on either of them.  One client joins and leaves.                *)
(* ---------------------------------------------------------------------- *)
InitAnchor == InitWith(Aps) /\ InitTable

NextAnchor ==
    \/ wifi_event_handler
    \/ \E t \in DOMAIN tasks : mac_change_task(t)
    \/ drv_connected
    \/ drv_disconnected
    \/ ap_client_join("A")
    \/ ap_client_leave("A")

SpecAnchor == InitAnchor /\ [][NextAnchor]_vars

(* ---------------------------------------------------------------------- *)
(* The upstream access point stops answering: an association completes     *)
(* only while no worker exists, so no STA_CONNECTED event belongs to an     *)
(* association made with a cloned MAC                                       *)
(* ---------------------------------------------------------------------- *)
NextNoReassoc ==
    \/ wifi_event_handler
    \/ \E t \in DOMAIN tasks : mac_change_task(t)
    \/ tasks = << >> /\ s_state = STATE_IDLE /\ drv_connected
    \/ drv_disconnected
    \/ \E m \in Clients : ap_client_join(m)
    \/ \E m \in Clients : ap_client_leave(m)

SpecNoReassoc == Init /\ [][NextNoReassoc]_vars

(* ---------------------------------------------------------------------- *)
(* Two joins in a row: client "A" joins first, client "B" joins after it;   *)
(* nobody leaves.  When the handler makes a request for "B", s_client_mac   *)
(* is "A", written when it handled the join of "A".                         *)
(* ---------------------------------------------------------------------- *)
NextDrop ==
    \/ on_STA_START
    \/ on_STA_CONNECTED
    \/ on_STA_CONNECTED_gate
    \/ on_STA_DISCONNECTED
    \/ on_STA_DISCONNECTED_stop
    \/ on_STA_DISCONNECTED_reconnect
    \/ on_AP_STACONNECTED
    \/ \E t \in DOMAIN tasks : mac_change_task(t)
    \/ drv_connected
    \/ drv_disconnected
    \/ sta_list = << >> /\ ap_client_join("A")
    \/ Listed("A") /\ ~Listed("B") /\ ap_client_join("B")

SpecDrop == Init /\ [][NextDrop]_vars

(* ---------------------------------------------------------------------- *)
(* Termination: clients join and leave in bursts that end, the worker and  *)
(* the event loop task are scheduled, and nothing is assumed of the radio:  *)
(* an association attempt need never end, so STA_CONNECTED and              *)
(* STA_DISCONNECTED need never arrive.  A worker step that has to post an   *)
(* event waits for room in the bounded queue, hence the strong fairness.    *)
(* ---------------------------------------------------------------------- *)
NextTerm ==
    \/ wifi_event_handler
    \/ \E t \in DOMAIN tasks : mac_change_task(t)
    \/ drv_connected
    \/ drv_disconnected
    \/ tasks = << >> /\ ap_client_join("A")
    \/ Listed("A") /\ ~Listed("B") /\ ap_client_join("B")
    \/ tasks = << >> /\ ap_client_leave("A")

FairTerm ==
    /\ WF_vars(wifi_event_handler)
    /\ \A t \in 1..MaxTasks : SF_vars(mac_change_task(t))

SpecTerm == Init /\ [][NextTerm]_vars /\ FairTerm

(* ---------------------------------------------------------------------- *)
(* The repeater with traffic: the events, the worker and the drivers,      *)
(* and frames arriving on both interfaces while the callbacks are          *)
(* registered                                                              *)
(* ---------------------------------------------------------------------- *)
\* number of frames received in a behaviour of the whole repeater
MaxBridgeFrames == 1

\* from the upstream AP: a broadcast DHCP ACK for client "B"
BridgeStaFrames ==
    {DhcpAck(BcastMac, FillIp(2), htonl(AddrSpace - Octet), FillIp(1), "B")}

\* from the clients: an IPv4 frame of client "B"
BridgeApFrames ==
    {Plain(FALSE, 60, "G", "B", "ipv4", FillIp(2), FillIp(7))}

NextBridge ==
    \/ NextIp
    \/ \E f \in BridgeStaFrames :
           now < MaxBridgeFrames /\ sta_rx(f) /\ UNCHANGED last_call
    \/ \E f \in BridgeApFrames :
           now < MaxBridgeFrames /\ ap_rx(f) /\ UNCHANGED last_call

SpecBridge == Init /\ [][NextBridge]_vars

(* ---------------------------------------------------------------------- *)
(* Vocabulary of the properties                                            *)
(* ---------------------------------------------------------------------- *)
\* task t is between taking and giving the worker mutex
InCritical(t) == tasks[t].pc # "take"

\* this step is a step of task t (it moved on, or it deleted itself)
StepOf(t) ==
    \/ Len(tasks') = Len(tasks) /\ tasks'[t].pc # tasks[t].pc
    \/ Len(tasks') = Len(tasks) - 1 /\ tasks' = Deleted(t)

\* this step ends the run of task t, which held the mutex
RunEnds(t) ==
    /\ InCritical(t)
    /\ Len(tasks') = Len(tasks) - 1
    /\ tasks' = Deleted(t)

\* no mac_change_task is between taking and giving the mutex
Quiescent == \A t \in DOMAIN tasks : ~InCritical(t)

\* the positions at which the worker's next statement is esp_wifi_set_mac
SetMacPcs == {"clone_set_mac", "clone_set_mac_failed", "clone_fallback_mac",
              "restore_set_mac"}

C2_claimed ==
    Quiescent => (s_mac_cloned <=> sta_mac # s_original_sta_mac)

(* ---------------------------------------------------------------------- *)
(* C3                                                                      *)
(* ---------------------------------------------------------------------- *)
\* C3: in every reachable state in which mac_cloned is true, the STA hardware
\* address equals client_mac.
C3_claimed ==
    s_mac_cloned => sta_mac = s_client_mac

(* ---------------------------------------------------------------------- *)
(* C4                                                                      *)
(* ---------------------------------------------------------------------- *)
\* C4: in every reachable state, state = IDLE implies mac_cloned = false
\* and forwarding_active = false.
C4_claimed ==
    s_state = STATE_IDLE => (~s_mac_cloned /\ ~s_forwarding_active)

(* ---------------------------------------------------------------------- *)
(* C5                                                                      *)
(* ---------------------------------------------------------------------- *)
\* C5: at most one mac_change_task is between taking and giving the worker
\* mutex, that task is the recorded holder, and every write to state,
\* mac_cloned and the STA MAC happens in a step of the task holding the mutex.
C5_one_worker ==
    /\ [](\A t, u \in DOMAIN tasks :
              (InCritical(t) /\ InCritical(u)) => t = u)
    /\ [](\A t \in DOMAIN tasks : InCritical(t) => s_mac_task_mutex = t)
    /\ [][(s_state' # s_state \/ s_mac_cloned' # s_mac_cloned
             \/ sta_mac' # sta_mac) =>
              (/\ s_mac_task_mutex \in DOMAIN tasks
               /\ InCritical(s_mac_task_mutex)
               /\ StepOf(s_mac_task_mutex))]_vars

\* a second request waits for the mutex while a clone run has already
\* changed the STA MAC
C5_witness ==
    /\ Len(tasks) >= 2
    /\ InCritical(1)
    /\ tasks[1].pc = "clone_mark"
    /\ sta_mac # s_original_sta_mac
    /\ tasks[2].pc = "take"

(* ---------------------------------------------------------------------- *)
(* C6                                                                      *)
(* ---------------------------------------------------------------------- *)
\* C6: at each moment the worker calls esp_wifi_set_mac on the STA,
\* forwarding_active is false and the ingress callbacks are unregistered.
C6_claimed ==
    [][\A t \in DOMAIN tasks :
          (tasks[t].pc \in SetMacPcs /\ StepOf(t)) =>
              (~s_forwarding_active /\ ~rxcb)]_vars

(* ---------------------------------------------------------------------- *)
(* C7                                                                      *)
(* ---------------------------------------------------------------------- *)
\* C7: when a worker run ends, the STA hardware address is that run's
\* target MAC or original_sta_mac.
C7_claimed ==
    [][\A t \in DOMAIN tasks :
          RunEnds(t) => sta_mac' \in {tasks[t].mac, s_original_sta_mac}]_vars

(* ---------------------------------------------------------------------- *)
(* C8                                                                      *)
(* ---------------------------------------------------------------------- *)
\* C8: a CLONE run whose set-MAC failed ends with original_sta_mac restored,
\* suppression cleared, a connect issued, the mutex released and
\* state = IDLE.
C8_claimed ==
    [][\A t \in DOMAIN tasks :
          (At(t, "clone_set_mac_failed") /\ RunEnds(t)) =>
              (/\ s_state' = STATE_IDLE
               /\ ~s_suppress_auto_reconnect'
               /\ link' # "down"
               /\ s_mac_task_mutex' = NoHolder)]_vars

(* ---------------------------------------------------------------------- *)
(* C9                                                                      *)
(* ---------------------------------------------------------------------- *)
\* C9: a CLONE run whose set-MAC failed ends with mac_cloned = false and
\* the STA DHCP client running.
C9_claimed ==
    [][\A t \in DOMAIN tasks :
          (At(t, "clone_set_mac_failed") /\ RunEnds(t)) =>
              (~s_mac_cloned' /\ sta_dhcpc')]_vars

(* ---------------------------------------------------------------------- *)
(* C10                                                                     *)
(* ---------------------------------------------------------------------- *)
\* C10: a CLONE run whose wait for STA CONNECTED timed out issues a connect
\* with suppression cleared and ends with state = IDLE, STA MAC =
\* original_sta_mac, mac_cloned = false, the STA DHCP client running, the
\* BSSID/channel pin removed and the mutex released.
C10_claimed ==
    [][\A t \in DOMAIN tasks :
          /\ (At(t, "clone_fallback_connect") /\ StepOf(t)) =>
                 (link' # "down" /\ ~s_suppress_auto_reconnect')
          /\ (At(t, "exit_clone_timeout") /\ RunEnds(t)) =>
                 (/\ s_state' = STATE_IDLE
                  /\ sta_mac' = s_original_sta_mac
                  /\ ~s_mac_cloned'
                  /\ sta_dhcpc'
                  /\ ~sta_cfg'.bssid_set
                  /\ sta_cfg'.channel = 0
                  /\ ~s_suppress_auto_reconnect'
                  /\ s_mac_task_mutex' = NoHolder)]_vars

(* ---------------------------------------------------------------------- *)
(* Vocabulary of the table properties                                      *)
(* ---------------------------------------------------------------------- *)
\* the used slots of table T
Used(T) == {i \in 1..MACNAT_MAX : T[i].used}

\* the last call was macnat_learn with arguments it does not ignore
Learned ==
    /\ last_call.fn = "macnat_learn"
    /\ last_call.ip # 0
    /\ ~is_multicast(last_call.mac)

\* no used entry of T has this IP or this MAC
NoMatch(T, ip_n, mac) ==
    \A i \in Used(T) : T[i].ip # ip_n /\ T[i].real_mac # mac

(* ---------------------------------------------------------------------- *)
(* C11, C12: the end of a bridging session                                 *)
(* ---------------------------------------------------------------------- *)
\* C11 (as claimed): at the step with which a RESTORE run sets state to
\* IDLE, whatever events were handled during the run and whether or not
\* the reconnect timed out, STA MAC = original_sta_mac, mac_cloned is
\* false, the STA DHCP client is running, the MAC-NAT table is empty, the
\* sniff latch is clear and the AP interface is 192.168.4.1/24 with its
\* DHCP server running.
C11_claimed ==
    [][\A t \in DOMAIN tasks :
          (At(t, "restore_wait_conn") /\ StepOf(t)) =>
              (/\ s_state' = STATE_IDLE
               /\ sta_mac' = s_original_sta_mac
               /\ ~s_mac_cloned'
               /\ sta_dhcpc'
               /\ s_macnat' = NoTable
               /\ ~s_ap_ip_from_sniff'
               /\ ap_ip' = ApMgmt
               /\ ap_dhcps')]_vars

\* C12 (as claimed): whenever a run that reset mac_cloned (a RESTORE, or a
\* CLONE whose reconnect timed out) sets state to IDLE, the MAC-NAT table
\* is empty and the sniff latch is false.
C12_claimed ==
    [][\A t \in DOMAIN tasks :
          (/\ At(t, "restore_wait_conn") \/ At(t, "clone_fallback_connect")
           /\ StepOf(t)
           /\ ~s_mac_cloned') =>
              (/\ s_state' = STATE_IDLE
               /\ s_macnat' = NoTable
               /\ ~s_ap_ip_from_sniff')]_vars

(* ---------------------------------------------------------------------- *)
(* C13                                                                     *)
(* ---------------------------------------------------------------------- *)
\* C13: in every table that macnat_learn and macnat_clear calls produce, no
\* used entry has a multicast/broadcast MAC, none has ip = 0, and no two
\* used entries have the same IPv4 address.
C13_claimed ==
    /\ \A i \in Used(s_macnat) :
           ~is_multicast(s_macnat[i].real_mac) /\ s_macnat[i].ip # 0
    /\ \A i, j \in Used(s_macnat) :
           s_macnat[i].ip = s_macnat[j].ip => i = j

(* ---------------------------------------------------------------------- *)
(* C14                                                                     *)
(* ---------------------------------------------------------------------- *)
\* C14: in every table that macnat_learn and macnat_clear calls produce, no
\* two used entries hold the same hardware address.
C14_claimed ==
    \A i, j \in Used(s_macnat) :
        s_macnat[i].real_mac = s_macnat[j].real_mac => i = j

(* ---------------------------------------------------------------------- *)
(* C15                                                                     *)
(* ---------------------------------------------------------------------- *)
\* C15: immediately after macnat_learn(ip, mac) with ip # 0 and a unicast
\* mac, macnat_lookup_by_ip(ip) returns mac.
C15_lookup_after_learn ==
    Learned => macnat_lookup_by_ip(s_macnat, last_call.ip) = last_call.mac

\* the learn matched an entry by MAC while a later entry held the IP
C15_witness ==
    /\ Learned
    /\ \E i, j \in Used(last_call.before) :
           /\ i < j
           /\ last_call.before[i].real_mac = last_call.mac
           /\ last_call.before[i].ip # last_call.ip
           /\ last_call.before[j].ip = last_call.ip
    /\ macnat_lookup_by_ip(s_macnat, last_call.ip) = last_call.mac

(* ---------------------------------------------------------------------- *)
(* C16                                                                     *)
(* ---------------------------------------------------------------------- *)
\* C16: a macnat_learn call that repeats the call before it (same ip, same
\* mac) leaves the table, timestamps included, as the first call left it.
C16_idempotent ==
    (last_call.fn = "macnat_learn" /\ last_call.twice) =>
        s_macnat = last_call.before

\* the repeated call found its entry in a full table
C16_witness ==
    /\ Learned
    /\ last_call.twice
    /\ Used(s_macnat) = 1..MACNAT_MAX
    /\ \E i \in Used(s_macnat) :
           /\ s_macnat[i].ip = last_call.ip
           /\ s_macnat[i].real_mac = last_call.mac
           /\ s_macnat[i].last_seen < now

(* ---------------------------------------------------------------------- *)
(* C17                                                                     *)
(* ---------------------------------------------------------------------- *)
\* C17: the table never holds more than 8 used entries; a macnat_learn that
\* matches no entry of a full table replaces exactly the entry with the
\* smallest last_seen and leaves the others unchanged; when a free slot
\* exists it keeps every used entry and adds one.
C17_lru ==
    /\ Cardinality(Used(s_macnat)) <= 8
    /\ (Learned /\ NoMatch(last_call.before, last_call.ip, last_call.mac)) =>
           IF Used(last_call.before) = 1..MACNAT_MAX
           THEN \E i \in 1..MACNAT_MAX :
                   /\ \A j \in 1..MACNAT_MAX :
                          j # i => last_call.before[i].last_seen <
                                       last_call.before[j].last_seen
                   /\ s_macnat = [last_call.before EXCEPT
                                     ![i] = new_entry(last_call.ip,
                                                      last_call.mac, now)]
           ELSE /\ \A i \in Used(last_call.before) :
                       s_macnat[i] = last_call.before[i]
                /\ Cardinality(Used(s_macnat)) =
                       Cardinality(Used(last_call.before)) + 1

\* an eviction from a full table whose oldest entry is not in the first slot
C17_witness ==
    /\ Learned
    /\ NoMatch(last_call.before, last_call.ip, last_call.mac)
    /\ Used(last_call.before) = 1..MACNAT_MAX
    /\ s_macnat[1] = last_call.before[1]
    /\ s_macnat # last_call.before

(* ---------------------------------------------------------------------- *)
(* C18, C19: the DHCP ACK sniffer                                          *)
(* ---------------------------------------------------------------------- *)
\* the frame is a DHCP ACK: a complete BOOTREPLY from port 67 to port 68
\* with the magic cookie and option 53 = 5
IsDhcpAck(f) ==
    /\ ~runt(f)
    /\ is_dhcp_reply(f)
    /\ dhcp_len(f) >= 240
    /\ f.op = 2
    /\ f.cookie
    /\ f.msg_type = 5

\* on_sta_rx has just received a DHCP ACK
AckSniffed == last_call.fn = "on_sta_rx" /\ IsDhcpAck(last_call.frame)

\* C18 (as claimed): within a bridging session the first DHCP ACK (latch
\* clear; the ACK carries the address and the mask the derivation needs)
\* configures the AP interface and sets the latch; every later DHCP ACK
\* (latch set) leaves the AP address and DHCP server as they were and
\* still feeds (yiaddr, chaddr) to the MAC-NAT table.
C18_claimed ==
    AckSniffed =>
        IF ~last_call.latch
        THEN (last_call.frame.yiaddr # 0 /\ last_call.frame.subnet_mask # 0)
                 => /\ s_ap_ip_from_sniff
                    /\ ap_ip.kind = "sniffed"
                    /\ ~ap_dhcps
        ELSE /\ << ap_ip, ap_dhcps >> = last_call.ap
             /\ s_ap_ip_from_sniff
             /\ s_macnat = macnat_learn(last_call.before,
                                        last_call.frame.yiaddr,
                                        last_call.frame.chaddr, now)

\* on_sta_rx has just received the ACK from which the AP address was derived
Derived ==
    last_call.fn = "on_sta_rx" /\ ~last_call.latch /\ s_ap_ip_from_sniff

\* C19 (as claimed): for every sniffed DHCP ACK the AP address chosen lies
\* strictly between the network and the broadcast address of the upstream
\* subnet and is neither the client's address nor the gateway's.
C19_claimed ==
    Derived =>
        LET h_client == ntohl(last_call.frame.yiaddr)
            h_mask == ntohl(last_call.frame.subnet_mask)
            h_gw == ntohl(last_call.frame.gateway)
            network == BitAnd(h_client, h_mask)
            bcast == BitOr(network, BitNot(h_mask))
            chosen == ntohl(ap_ip.ip)
        IN  /\ network < chosen
            /\ chosen < bcast
            /\ chosen # h_client
            /\ chosen # h_gw

(* ---------------------------------------------------------------------- *)
(* C20: ownership of the rx buffer                                         *)
(* ---------------------------------------------------------------------- *)
\* the driver calls that end the lifetime of the buffer
Ends == {"receive_sta", "receive_ap", "free"}

\* C20: every invocation of on_sta_rx and of on_ap_rx ends the lifetime of
\* the buffer exactly once: exactly one of its driver calls delivers the
\* buffer to the stack or frees it, that call is the last one, and the
\* transmit calls before it leave the buffer alive.
C20_exactly_once ==
    last_call.fn \in {"on_sta_rx", "on_ap_rx"} =>
        LET calls == last_call.calls
        IN  /\ Len(calls) >= 1
            /\ calls[Len(calls)] \in Ends
            /\ \A i \in 1..(Len(calls) - 1) : calls[i] \notin Ends

\* the second callback to run, on_sta_rx, has transmitted the frame on the
\* AP and then delivered it to the stack, with an address learned in the
\* table
C20_witness ==
    /\ last_call.fn = "on_sta_rx"
    /\ last_call.calls = << "tx_ap", "receive_sta" >>
    /\ last_call.n = 2
    /\ s_macnat # NoTable

(* ---------------------------------------------------------------------- *)
(* C21: the client counter                                                 *)
(* ---------------------------------------------------------------------- *)
\* every join and leave the driver posted has been handled
ApEventsHandled ==
    /\ evt_pc = "idle"
    /\ \A i \in DOMAIN evq :
           evq[i].type \notin {"AP_STACONNECTED", "AP_STADISCONNECTED"}

\* C21 (as claimed): once every join and leave event has been handled,
\* client_count equals the number of clients in the driver's list, also
\* after a leave that the driver reported twice.
C21_claimed == ApEventsHandled => s_client_count = Len(sta_list)

(* ---------------------------------------------------------------------- *)
(* C22: a join during a restore                                            *)
(* ---------------------------------------------------------------------- *)
\* a mac_change_task cloning client m exists
CloneStarted(m) == \E t \in DOMAIN tasks : tasks[t].clone /\ tasks[t].mac = m

\* C22 (as claimed): a client that joined the AP while the state was
\* MAC_RESTORING gets a clone started for it once the restore is over, with
\* no further join event.
C22_claimed == Listed("B") ~> CloneStarted("B")

(* ---------------------------------------------------------------------- *)
(* C23: re-clone when the primary client leaves                            *)
(* ---------------------------------------------------------------------- *)
\* this step handles the AP_STADISCONNECTED of client m
LeaveHandled(m) ==
    /\ evt_pc = "idle"
    /\ evq # << >>
    /\ Head(evq) = Event("AP_STADISCONNECTED", m)
    /\ evq' = Tail(evq)

\* A has left, B remains and A's leave has been handled
PrimaryLeft == Listed("B") /\ ~Listed("A") /\ ApEventsHandled

\* a worker is alive that has not yet made all its esp_wifi_set_mac calls
BeforeSetMac ==
    \E t \in DOMAIN tasks :
        tasks[t].pc \in {"take", "clone_begin", "clone_disconnect",
                         "clone_wait_disc", "clone_set_mac",
                         "clone_set_mac_failed"}

\* no STA_CONNECTED / STA_DISCONNECTED is queued or being handled
StaEventsHandled ==
    /\ evt_pc = "idle"
    /\ \A i \in DOMAIN evq :
           evq[i].type \notin {"STA_CONNECTED", "STA_DISCONNECTED"}

\* C23 (as claimed): with A primary and B associated, when A's leave is
\* handled a clone of B is issued; forwarding is stopped when the STA MAC
\* changes; after the set-MAC calls the STA MAC and client_mac are B's MAC;
\* once the STA has reassociated forwarding is active again; and the state is
\* MAC_CHANGING or BRIDGING throughout, never IDLE.
C23_claimed ==
    /\ [][(Listed("B") /\ LeaveHandled("A")) =>
             (CloneStarted("B")' /\ s_client_mac' = "B")]_vars
    /\ [][\A t \in DOMAIN tasks :
             (tasks[t].mac = "B" /\ At(t, "clone_set_mac") /\ StepOf(t)) =>
                 ~s_forwarding_active]_vars
    /\ [](PrimaryLeft /\ ~BeforeSetMac =>
             sta_mac = "B" /\ s_client_mac = "B")
    /\ [](PrimaryLeft /\ ~BeforeSetMac /\ s_sta_connected /\ StaEventsHandled =>
             s_forwarding_active)
    /\ [](PrimaryLeft => s_state \in {STATE_BRIDGING, STATE_MAC_CHANGING})

(* ---------------------------------------------------------------------- *)
(* C24: a single client is cloned and bridged                              *)
(* ---------------------------------------------------------------------- *)
\* client m is bridged
BridgingFor(m) ==
    /\ s_state = STATE_BRIDGING
    /\ sta_mac = m
    /\ s_mac_cloned
    /\ s_forwarding_active

\* C24: when the single client A has joined, the STA can associate and
\* set-MAC succeeds, the repeater eventually is in state BRIDGING with STA
\* MAC = A, mac_cloned and forwarding_active.
C24_bridges == Listed("A") ~> BridgingFor("A")

\* A has joined, its clone run is over and A is bridged
C24_witness == sta_list = << "A" >> /\ tasks = << >> /\ BridgingFor("A")

(* ---------------------------------------------------------------------- *)
(* C25: restore when the last client leaves                                *)
(* ---------------------------------------------------------------------- *)
\* a RESTORE worker exists
RestoreStarted == \E t \in DOMAIN tasks : ~tasks[t].clone

\* C25 (as claimed): when the only client A leaves in BRIDGING and the
\* RESTORE worker has been created, the repeater eventually is in state IDLE
\* with the STA MAC equal to original_sta_mac, whether or not the STA
\* reconnects within the timeout.
C25_claimed == RestoreStarted ~> (s_state = STATE_IDLE /\ sta_mac = s_original_sta_mac)

(* ---------------------------------------------------------------------- *)
(* C26: a frame for the cloned address in single-client bridging           *)
(* ---------------------------------------------------------------------- *)
\* the last call was on_sta_rx with one client associated, for an IPv4
\* unicast frame whose destination is the cloned client address
ToClonedSingle ==
    /\ last_call.fn = "on_sta_rx"
    /\ s_client_count = 1
    /\ ~runt(last_call.frame)
    /\ last_call.frame.ethertype = "ipv4"
    /\ last_call.frame.dst = s_client_mac
    /\ s_client_mac = sta_mac

FromAdditional ==
    /\ last_call.fn = "on_ap_rx"
    /\ s_client_count = 2
    /\ ~runt(last_call.frame)
    /\ last_call.frame.src \in Associated \ {s_client_mac}
    /\ last_call.frame.ethertype = "ipv4"
    /\ last_call.frame.len >= 34
    /\ last_call.frame.src_ip # 0

\* the last call was on_sta_rx with two clients, for a unicast IPv4 frame to
\* the cloned address that carries a destination address
ToClonedPair ==
    /\ last_call.fn = "on_sta_rx"
    /\ s_client_count = 2
    /\ ~runt(last_call.frame)
    /\ last_call.frame.dst = sta_mac
    /\ last_call.frame.ethertype = "ipv4"
    /\ last_call.frame.len >= 34

\* C27: with A primary and B additional, an IPv4 frame of B with source
\* address x (not 0.0.0.0) goes upstream with Ethernet source = cloned MAC
\* and leaves the table mapping x to B's MAC; a unicast IPv4 frame from the
\* STA for the cloned MAC goes to the AP with destination B's MAC when the
\* table maps its destination address to B, and with its destination
\* unchanged when the table maps that address to the cloned MAC or to
\* nothing.
C27_round_trip ==
    /\ FromAdditional =>
           /\ last_call.out.src = sta_mac
           /\ s_sta_connected => last_call.calls[1] = "tx_sta"
           /\ macnat_lookup_by_ip(s_macnat, last_call.frame.src_ip)
                  = last_call.frame.src
    /\ ToClonedPair =>
           LET mapped == macnat_lookup_by_ip(s_macnat, last_call.frame.dst_ip)
           IN  /\ last_call.calls[1] = "tx_ap"
               /\ mapped = "B" => last_call.out.dst = "B"
               /\ mapped \in {"NULL", sta_mac} =>
                      last_call.out.dst = last_call.frame.dst

\* the round trip: B's frame taught the table 10.2 -> B, and the frame from
\* the STA for 10.2 went to the AP with destination B
C27_witness ==
    /\ ToClonedPair
    /\ last_call.n = 2
    /\ last_call.frame.dst_ip = FillIp(2)
    /\ macnat_lookup_by_ip(last_call.before, FillIp(2)) = "B"
    /\ last_call.out.dst = "B"
    /\ last_call.frame.dst = "A"

(* ---------------------------------------------------------------------- *)
(* C28: the DHCP broadcast flag                                            *)
(* ---------------------------------------------------------------------- *)
\* the last call was on_ap_rx for a DHCP client-to-server message (UDP 68
\* to 67) whose DHCP payload is present up to the flags field
DhcpFromClient ==
    /\ last_call.fn = "on_ap_rx"
    /\ ~runt(last_call.frame)
    /\ last_call.frame.ethertype = "ipv4"
    /\ last_call.frame.proto = "udp"
    /\ last_call.frame.ports = "68_67"
    /\ last_call.frame.len >= 14 + last_call.frame.ihl + 8 + 44

\* C28: a DHCP client-to-server frame of a non-primary client, received on
\* the AP while client_count > 1, goes upstream with the broadcast flag set
\* (0x0000 becomes 0x8000), UDP checksum 0x0000 and Ethernet source = cloned
\* MAC, and nothing else changed; a frame of the primary client goes upstream
\* unmodified.
C28_broadcast_flag ==
    DhcpFromClient =>
        LET f == last_call.frame
            out == last_call.out
        IN  /\ s_sta_connected => last_call.calls[1] = "tx_sta"
            /\ (s_client_count > 1 /\ f.src # s_client_mac) =>
                   /\ out.flags >= BROADCAST_FLAG
                   /\ out.flags % BROADCAST_FLAG = f.flags % BROADCAST_FLAG
                   /\ f.flags = 0 => out.flags = BROADCAST_FLAG
                   /\ out.udp_csum = 0
                   /\ out.src = sta_mac
                   /\ [out EXCEPT !.flags = f.flags, !.udp_csum = f.udp_csum,
                                  !.src = f.src] = f
            /\ f.src = s_client_mac => out = f

\* a request of B that ends with the 44th byte of the DHCP message went
\* upstream with the flag set and the checksum cleared
C28_witness ==
    /\ DhcpFromClient
    /\ s_client_count = 2
    /\ s_sta_connected
    /\ last_call.frame = DhcpRequest(86, 20, "B", 0, SomeChecksum)
    /\ last_call.out.flags = BROADCAST_FLAG
    /\ last_call.out.udp_csum = 0

(* ---------------------------------------------------------------------- *)
(* C29: a frame of exactly 14 bytes                                        *)
(* ---------------------------------------------------------------------- *)
\* the last call received a frame that is its Ethernet header only
HeaderOnly ==
    /\ last_call.fn \in {"on_sta_rx", "on_ap_rx"}
    /\ ~last_call.frame.null
    /\ last_call.frame.len = 14

\* the call did not sniff and did not learn
NothingLearned ==
    /\ s_macnat = last_call.before
    /\ s_ap_ip_from_sniff = last_call.latch
    /\ << ap_ip, ap_dhcps >> = last_call.ap

\* the call went past the length check and delivered or freed the buffer
\* by the destination address
ByDestination ==
    LET dst == last_call.frame.dst
    IN  IF last_call.fn = "on_sta_rx"
        THEN last_call.calls =
                 << "tx_ap",
                    IF is_multicast(dst)
                       \/ dst \in {s_original_sta_mac, s_client_mac}
                    THEN "receive_sta" ELSE "free" >>
        ELSE last_call.calls =
                 (IF s_sta_connected /\ dst # s_ap_mac
                  THEN << "tx_sta" >> ELSE << >>)
                 \o << IF is_multicast(dst) \/ dst = s_ap_mac
                       THEN "receive_ap" ELSE "free" >>

handler_connects ==
    \/ on_STA_START /\ ~s_suppress_auto_reconnect
    \/ on_STA_DISCONNECTED_reconnect

\* C30: while reconnect suppression is true the event handler never calls
\* esp_wifi_connect, neither for STA_START nor for STA_DISCONNECTED, the
\* reconnect after the one second delay included; and the flag is written
\* only by the worker.
C30_claimed ==
    /\ [][handler_connects => ~s_suppress_auto_reconnect]_vars
    /\ [][s_suppress_auto_reconnect' # s_suppress_auto_reconnect =>
              \E t \in DOMAIN tasks : mac_change_task(t)]_vars

(* ---------------------------------------------------------------------- *)
(* C31: the upstream anchor                                                *)
(* ---------------------------------------------------------------------- *)
\* the STA configuration pinned to the recorded anchor
PinnedToAnchor ==
    /\ sta_cfg.bssid_set
    /\ sta_cfg.bssid = s_upstream_bssid
    /\ sta_cfg.channel = s_upstream_channel

\* C31: once the first STA_CONNECTED has recorded BSSID and channel, no later
\* step (a STA_CONNECTED for any access point, a clone, a restore, a fallback)
\* changes the recorded BSSID, the channel or the locked flag; and a clone
\* that finds the anchor locked pins the STA configuration to exactly that
\* BSSID and channel, and the pin is still in place when it reconnects.
C31_write_once ==
    /\ [][s_bssid_locked => UNCHANGED anchorVars]_vars
    /\ [][(s_bssid_locked /\ \E t \in DOMAIN tasks : clone_mark(t))
              => PinnedToAnchor']_vars
    /\ [][(PinnedToAnchor /\ \E t \in DOMAIN tasks : clone_connect(t))
              => PinnedToAnchor']_vars
    /\ [](s_bssid_locked => s_upstream_channel = Channel[s_upstream_bssid])

\* the first association was with the second access point, and a clone
\* waits for its reconnect with the configuration pinned to that access
\* point and its channel
C31_witness ==
    /\ s_bssid_locked
    /\ s_upstream_bssid = "ap2"
    /\ s_upstream_channel = 6
    /\ PinnedToAnchor
    /\ \E t \in DOMAIN tasks : At(t, "clone_wait_conn")

(* ---------------------------------------------------------------------- *)
(* C32: entering BRIDGING                                                  *)
(* ---------------------------------------------------------------------- *)
\* C32: whenever the worker sets s_state = STATE_BRIDGING, the STA has
\* reassociated with the cloned MAC: a STA_CONNECTED event was handled after
\* this run's set-MAC and reconnect; a connected bit left over from before
\* the MAC change is not enough.  Where no association completes once a
\* worker exists, the worker therefore never sets STATE_BRIDGING.
C32_claimed ==
    [][~(\E t \in DOMAIN tasks : clone_connected(t))]_vars

(* ---------------------------------------------------------------------- *)
(* C33: the primary client leaves                                          *)
(* ---------------------------------------------------------------------- *)
\* a clone for client m has been requested or is in progress (a clone task
\* for m exists), or has completed (s_mac_cloned with s_client_mac = m)
CloneFor(m) ==
    /\ s_client_mac = m
    /\ \/ s_mac_cloned
       \/ \E t \in DOMAIN tasks : tasks[t].clone /\ tasks[t].mac = m

\* the step appended a restore request to the task list
RestoreEnqueued ==
    /\ Len(tasks') = Len(tasks) + 1
    /\ ~tasks'[Len(tasks')].clone

\* C33: in every state in which a clone for client P has been requested, is
\* in progress or has completed, the handling of a leave event for P with no
\* other client remaining enqueues a restore request; this includes a leave
\* handled during MAC_CHANGING before s_mac_cloned is set.
C33_claimed ==
    [][(/\ on_AP_STADISCONNECTED
        /\ CloneFor(Head(evq).arg)
        /\ Len(Remaining(Head(evq).arg)) = 0) => RestoreEnqueued]_vars

(* ---------------------------------------------------------------------- *)
(* C34: a request dropped at the mutex                                     *)
(* ---------------------------------------------------------------------- *)
\* the step is the mutex timeout of a request for client m
Dropped(m) == \E t \in DOMAIN tasks : sem_timeout(t) /\ tasks[t].mac = m

\* C34: a request whose worker does not get the mutex within its timeout is
\* dropped without effect and without retry: the drop changes none of state,
\* mac_cloned, client_mac, STA MAC, reconnect suppression, forwarding_active
\* and the MAC-NAT table and leaves the holder in place; client_mac is what
\* it was before the request was made ("A" when the request is for "B");
\* and a worker is spawned only by the handling of a client join or leave.
C34_claimed ==
    /\ [][(\E m \in Macs : Dropped(m)) =>
              /\ UNCHANGED << s_state, s_mac_cloned, s_client_mac, sta_mac,
                              s_suppress_auto_reconnect, s_forwarding_active,
                              s_macnat >>
              /\ s_mac_task_mutex # NoHolder
              /\ tasks'[s_mac_task_mutex'] = tasks[s_mac_task_mutex]]_vars
    /\ [][Dropped("B") => s_client_mac' = "A"]_vars
    /\ [][Len(tasks') > Len(tasks) =>
              (on_AP_STACONNECTED \/ on_AP_STADISCONNECTED)]_vars

RoomyMask(h_mask) ==
    \E k \in 3..15 : h_mask = AddrSpace - 2^k

\* on_sta_rx has just received the first DHCP ACK of the session, with an
\* address and such a netmask
FirstRoomyAck ==
    /\ last_call.fn = "on_sta_rx"
    /\ ~last_call.latch
    /\ IsDhcpAck(last_call.frame)
    /\ last_call.frame.yiaddr # 0
    /\ RoomyMask(ntohl(last_call.frame.subnet_mask))

\* the highest of the three highest host addresses below bcast that is
\* neither the client's nor the gateway's
HighestFree(bcast, h_client, h_gw) ==
    CHOOSE h \in {bcast - 1, bcast - 2, bcast - 3} :
        /\ h \notin {h_client, h_gw}
        /\ \A g \in {bcast - 1, bcast - 2, bcast - 3} :
               g > h => g \in {h_client, h_gw}

\* C36: for a first DHCP ACK in a subnet of prefix length <= 29 the sniffer
\* gives the AP the highest host address of the subnet that is neither the
\* client's nor the gateway's, with the netmask and the gateway of the ACK,
\* stops the AP DHCP server and sets the latch; and the MAC-NAT table maps
\* yiaddr to chaddr.
C36_highest_host ==
    FirstRoomyAck =>
        LET f == last_call.frame
            h_client == ntohl(f.yiaddr)
            h_mask == ntohl(f.subnet_mask)
            network == BitAnd(h_client, h_mask)
            bcast == BitOr(network, BitNot(h_mask))
        IN  /\ ap_ip = ApSniffed(htonl(HighestFree(bcast, h_client,
                                                   ntohl(f.gateway))),
                                 f.subnet_mask, f.gateway)
            /\ ~ap_dhcps
            /\ s_ap_ip_from_sniff
            /\ macnat_lookup_by_ip(s_macnat, f.yiaddr) = f.chaddr

\* the client has the highest host address of a subnet with three host
\* bits and the gateway the one below it: the AP got the third highest
C36_witness ==
    /\ FirstRoomyAck
    /\ ntohl(last_call.frame.subnet_mask) = AddrSpace - 8
    /\ ntohl(last_call.frame.yiaddr) = 10 * Octet + 6
    /\ ntohl(last_call.frame.gateway) = 10 * Octet + 5
    /\ ntohl(ap_ip.ip) = 10 * Octet + 4
    /\ ~ap_dhcps

(* ---------------------------------------------------------------------- *)
(* C37: reconnect suppression is released with the mutex                   *)
(* ---------------------------------------------------------------------- *)
\* C37: whenever no worker holds the worker mutex, reconnect suppression is
\* false: every path on which a mac_change_task that took the mutex exits
\* (clone success, set-MAC failure, reconnect timeout, restore) has cleared
\* the flag before it gives the mutex, and nothing but such a task sets it.
C37_released ==
    s_mac_task_mutex = NoHolder => ~s_suppress_auto_reconnect

\* a clone ran into its reconnect timeout, asserted suppression again for
\* the fallback, and has given the mutex
C37_witness ==
    /\ s_mac_task_mutex = NoHolder
    /\ tasks = << >>
    /\ s_state = STATE_IDLE
    /\ s_client_count = 1
    /\ ~s_mac_cloned
    /\ ~s_suppress_auto_reconnect

(* ---------------------------------------------------------------------- *)
(* C38: every mac_change_task terminates                                   *)
(* ---------------------------------------------------------------------- *)
\* C38: every mac_change_task terminates: a task that cannot get the mutex
\* exits after its timeout, and a task that gets it reaches the release of
\* the mutex whether or not STA_DISCONNECTED / STA_CONNECTED ever arrive;
\* no interleaving of workers and event handler leaves a task alive or the
\* mutex held forever.  Whenever tasks exist, a moment follows at which
\* none exists and the mutex is free.
C38_terminates ==
    (tasks # << >>) ~> (tasks = << >> /\ s_mac_task_mutex = NoHolder)

\* both clients have joined, no STA_CONNECTED event has ever been handled,
\* and every task is gone with the mutex free
C38_witness ==
    /\ tasks = << >>
    /\ s_mac_task_mutex = NoHolder
    /\ s_client_count = 2
    /\ ~s_bssid_locked
    /\ s_state = STATE_IDLE

(* ---------------------------------------------------------------------- *)
(* C39: IP events while the sniff latch is set                             *)
(* ---------------------------------------------------------------------- *)
\* C39 (as claimed): while the sniff latch is set and the state is
\* BRIDGING, no handled IP_EVENT_STA_GOT_IP or IP_EVENT_STA_LOST_IP changes
\* the AP address or the running state of the AP DHCP server.
C39_claimed ==
    [][(/\ s_ap_ip_from_sniff
        /\ s_state = STATE_BRIDGING
        /\ on_STA_GOT_IP \/ on_STA_LOST_IP)
           => UNCHANGED << ap_ip, ap_dhcps >>]_vars

(* ---------------------------------------------------------------------- *)
(* C40: forwarding and the STA link at handler boundaries                  *)
(* ---------------------------------------------------------------------- *)
\* C40: with each radio event handler invocation taken as one step (the
\* event loop is between handlers), forwarding_active implies sta_connected;
\* forwarding is switched on only by the STA_CONNECTED handler, with
\* sta_connected already set; every STA_DISCONNECTED handler invocation
\* ends with forwarding_active and sta_connected both false; the
\* STA_DISCONNECTED handler never writes the state, so after an unsolicited
\* disconnect in BRIDGING the state is still BRIDGING, and an STA_CONNECTED
\* handled in BRIDGING ends with forwarding on.
C40_handler_atomic ==
    /\ [](evt_pc = "idle" => (s_forwarding_active => s_sta_connected))
    /\ [][(~s_forwarding_active /\ s_forwarding_active') =>
              (on_STA_CONNECTED_gate /\ s_sta_connected)]_vars
    /\ [][((on_STA_DISCONNECTED_stop \/ on_STA_DISCONNECTED_reconnect)
              /\ evt_pc' = "idle") =>
              (~s_forwarding_active' /\ ~s_sta_connected')]_vars
    /\ [][(on_STA_DISCONNECTED \/ on_STA_DISCONNECTED_stop
              \/ on_STA_DISCONNECTED_reconnect) => UNCHANGED s_state]_vars
    /\ [][(on_STA_CONNECTED_gate /\ s_state = STATE_BRIDGING) =>
              s_forwarding_active']_vars

\* the link dropped in BRIDGING with no worker alive: the handler has ended
\* with forwarding off, the state is still BRIDGING, the STA has
\* reassociated and its STA_CONNECTED is the next event
C40_witness ==
    /\ s_state = STATE_BRIDGING
    /\ ~s_forwarding_active
    /\ ~s_sta_connected
    /\ tasks = << >>
    /\ evt_pc = "idle"
    /\ link = "up"
    /\ Len(evq) = 1
    /\ Head(evq).type = "STA_CONNECTED"

====
